---- MODULE Spec2Model ----
(***************************************************************************)
(* A model of the generation pipeline of the Intelekt backend:             *)
(*   - the project file store, CodeGeneratorService                        *)
(*     (backend/services/code_generator.py), with the project deletion     *)
(*     of backend/routes/projects.py and the chat turn of                  *)
(*     backend/routes/chat.py that drive it;                               *)
(*   - the response parsers of AIService (backend/services/ai_service.py). *)
(* The store is a state machine whose tasks are the coroutines of the      *)
(* asyncio event loop; the parsers are pure functions over token strings.  *)
(***************************************************************************)
EXTENDS Integers, Sequences, FiniteSets, TLC

VARIABLES
    dirs,         \* project ids whose directory exists under projects_path
    manifest,     \* project id -> the project.json on disk
    fileData,     \* project id -> path -> bytes of the file that
                  \* projects_path / id / path names on disk
    projects_db,  \* project id -> cached Project object (0: no entry)
    heap,         \* object id -> Project object (files, updated_at)
    task,         \* task -> state of the call it runs
    running,      \* the task inside a synchronous section (0: loop is free)
    sched,        \* "asyncio": one event loop; "threads": callers on threads
    clock,        \* datetime.now()
    created,      \* project ids (uuid4) handed out so far
    calls,        \* number of calls started so far
    crashes,      \* number of process restarts so far
    last,         \* the call that ended in the latest step, with its result
    deleted,      \* project ids that have been deleted
    fwrites,      \* number of files written to disk so far (up to MaxCalls)
    blocks,       \* parser: the file blocks the response was built from
    fenced,       \* parser: the generic fenced code blocks written in it
    sections,     \* parser: the dependency lines and the explanation in it
    response,     \* parser: the raw text handed to a parser
    existing,     \* parser: the keys of existing_files, in the map's order
    parsed,       \* parser: the result of the latest parse
    phase,        \* parser: "input" | "deps" | "tail" while the response
                  \* is written, then "generation" | "refinement"
    message,      \* chat turn: request.message, as the phrases typed
    has_existing_files, \* chat turn: len(existing_files) > 0
    is_refinement, \* chat turn: the verdict of is_refinement_request
    input_files,  \* indexer: the files given to index_project, in map order
    indexes,      \* indexer: CodebaseIndexer.indexes[project_id]
    index,        \* indexer: what index_project returned or raised
    user_query,   \* build_ai_context: the argument user_query
    max_files,    \* build_ai_context: the argument max_files
    context,      \* build_ai_context: the files it selected and the
                  \* bodies it rendered, or what it raised
    contexts,     \* ContextService.contexts: project id -> ProjectContext
    context_file, \* project id -> the data in .contexts/<id>.json
    ctx_last      \* the last call of a ContextService method

storeVars == <<dirs, manifest, fileData, projects_db, heap, task, running,
               sched, clock, created, calls, crashes, last, deleted,
               fwrites>>
parseVars == <<blocks, fenced, sections, response, existing, parsed, phase>>
turnVars == <<message, has_existing_files, is_refinement>>
indexVars == <<input_files, indexes, index>>
assembleVars == <<user_query, max_files, context>>
ctxVars == <<contexts, context_file, ctx_last>>
vars == <<storeVars, parseVars, turnVars, indexVars, assembleVars, ctxVars>>

\* What the steps of one part of the program leave alone.
notStore == <<parseVars, turnVars, indexVars, assembleVars, ctxVars>>
notParse == <<storeVars, turnVars, indexVars, assembleVars, ctxVars>>
notTurn == <<storeVars, parseVars, indexVars, assembleVars, ctxVars>>
notIndex == <<storeVars, parseVars, turnVars, assembleVars, ctxVars>>
notAssemble == <<storeVars, parseVars, turnVars, ctxVars>>
notCtx == <<storeVars, parseVars, turnVars, indexVars, assembleVars>>

----------------------------------------------------------------------------
(* Bounds of the model *)

MaxCalls == 3
MaxGenFiles == 1
MaxCrashes == 1

Tasks == {1, 2}
ProjectIds == {1}
ObjIds == 1..(Cardinality(Tasks) + Cardinality(ProjectIds) + 1)

\* "/" is absolute: projects_path / id / "/" is the root directory, and
\* open() on a directory raises IsADirectoryError.
GoodPaths == {"a.txt", "b.txt"}
BadPath == "/"

\* A relative path whose ".." segment leaves the project directory:
\* projects_path / id / "../x.txt" is the file projects_path / "x.txt".
EscPath == "../x.txt"
Paths == GoodPaths \cup {BadPath, EscPath}

\* project_path / file_path: an absolute file_path replaces project_path.
IsAbsolute(path) == Len(path) > 0 /\ SubSeq(path, 1, 1) = "/"

RECURSIVE NextSlash(_, _)
NextSlash(path, i) ==
    IF i > Len(path) THEN i
    ELSE IF SubSeq(path, i, i) = "/" THEN i
    ELSE NextSlash(path, i + 1)

\* The operating system resolves the joined path segment by segment; the
\* result is the depth below the project directory, or -1 once a ".."
\* segment has left it (no path of the model comes back in afterwards).
RECURSIVE Walk(_, _, _)
Walk(path, i, d) ==
    IF i > Len(path) THEN d
    ELSE LET j == NextSlash(path, i)
             seg == SubSeq(path, i, j - 1)
             d2 == IF seg = ".." THEN d - 1
                   ELSE IF seg \in {"", "."} THEN d
                   ELSE d + 1
         IN IF d2 < 0 THEN -1 ELSE Walk(path, j + 1, d2)

\* The file that open(project_path / file_path, "w") writes lies under
\* project_path.
InsideProject(path) == ~IsAbsolute(path) /\ Walk(path, 1, 0) >= 0

\* File contents are character sequences; CR and LF are the newline bytes.
Contents == { <<"h", "LF">>, <<"w", "CR", "LF", "x">> }

\* The contents the LLM produces.
GenContents == { <<"h", "LF">> }

NoFile == <<"ENOENT">>
NoManifest == [exists |-> FALSE, files |-> <<>>, updated_at |-> 0]
NoObj == [files |-> <<>>, updated_at |-> 0]
NoPrev == [op |-> "none", id |-> 0, path |-> "", content |-> <<>>,
           kind |-> "none"]

----------------------------------------------------------------------------
(* Text-mode file I/O, as open(path, "w") and open(path, "r") do it *)

LineSep == <<"LF">>

RECURSIVE TextWrite(_)
\* open(.., "w"): newline=None translates "\n" to os.linesep on write.
TextWrite(s) ==
    IF s = <<>> THEN <<>>
    ELSE IF Head(s) = "LF" THEN LineSep \o TextWrite(Tail(s))
    ELSE <<Head(s)>> \o TextWrite(Tail(s))

RECURSIVE TextRead(_)
\* open(.., "r"): universal newlines, "\r\n" and "\r" are read as "\n".
TextRead(b) ==
    IF b = <<>> THEN <<>>
    ELSE IF Head(b) = "CR"
         THEN IF Len(b) > 1 /\ b[2] = "LF"
              THEN <<"LF">> \o TextRead(Tail(Tail(b)))
              ELSE <<"LF">> \o TextRead(Tail(b))
    ELSE <<Head(b)>> \o TextRead(Tail(b))

----------------------------------------------------------------------------
(* Helpers over the disk and the object heap *)

SeqToSet(s) == { s[i] : i \in 1..Len(s) }

Referenced(o, D, T) ==
    \/ \E i \in ProjectIds : D[i] = o
    \/ \E t \in Tasks : T[t].proj = o

\* A new Project(...) object: the least object id nothing refers to.
FreeObj ==
    CHOOSE o \in ObjIds :
        /\ ~Referenced(o, projects_db, task)
        /\ \A q \in ObjIds : ~Referenced(q, projects_db, task) => o <= q

\* _load_project_metadata(id): the object it returns (0: None),
\* and the heap and the cache it leaves.
LoadObj(id) == IF manifest[id].exists THEN FreeObj ELSE 0
LoadHeap(id) ==
    IF manifest[id].exists
    THEN [heap EXCEPT ![FreeObj] = [files |-> manifest[id].files,
                                    updated_at |-> manifest[id].updated_at]]
    ELSE heap
LoadDb(id) ==
    IF manifest[id].exists
    THEN [projects_db EXCEPT ![id] = FreeObj]
    ELSE projects_db

\* get_project(id): the cached object if there is one, else a load from disk.
GetObj(id) == IF projects_db[id] # 0 THEN projects_db[id] ELSE LoadObj(id)
GetHeap(id) == IF projects_db[id] # 0 THEN heap ELSE LoadHeap(id)
GetDb(id) == IF projects_db[id] # 0 THEN projects_db ELSE LoadDb(id)

\* A save that forgets to record the path.
AppendPathNever(H, o, path) == H

\* "if file_path not in project.files: project.files.append(file_path)"
AppendPath(H, o, path) ==
    IF path \in SeqToSet(H[o].files) THEN H
    ELSE [H EXCEPT ![o].files = Append(@, path)]

\* "project.updated_at = datetime.now()"
BumpUpdated(H, o) == [H EXCEPT ![o].updated_at = clock + 1]

\* The files get_project_files returns for object o of project id.
ListedFiles(H, o, id) ==
    { p \in SeqToSet(H[o].files) : fileData[id][p] # NoFile }

\* The text a parser was handed: the LLM call that produced it and the parts
\* its prompt was built from. No text has been parsed yet.
NoRaw == [llm |-> "none", prompt |-> {}]

\* "code_prompt = f'... Requirement: {prompt} ... Tech Stack: ... Additional
\* Context: {context}'": context is the conversation and the stored snippets.
CodePrompt == {"prompt", "tech_stack", "context"}

\* "refinement_prompt = f'... {files_context} {conversation_context} ...
\* {instruction}'"
RefinementPrompt == {"current_files", "conversation_context", "instruction"}

RawOf(llm, prompt) == [llm |-> llm, prompt |-> prompt]

IdleTask == [pc |-> "idle", op |-> "none", id |-> 0, path |-> "",
             content |-> <<>>, proj |-> 0, ops |-> <<>>, scan |-> {},
             files |-> {}, ret |-> [kind |-> "none", val |-> <<>>],
             turn |-> FALSE, wrote |-> FALSE, prev |-> NoPrev, at |-> "idle",
             project_context |-> "none", raw |-> NoRaw]

\* The call before this one, as a later call sees it.
PrevOf(l) == [op |-> l.op, id |-> l.id, path |-> l.path,
              content |-> l.content, kind |-> l.ret.kind]

\* The positions where a coroutine is suspended (await, yield) or not running.
AwaitPcs == {"idle", "done", "cancelled", "gf_llm", "gp_llm", "cs_stream",
             "cs_refine_llm", "cs_yield"}

\* The positions where the call waits for the LLM client.
LlmPcs == {"gf_llm", "gp_llm", "cs_stream", "cs_refine_llm"}

\* Task t may take a step: on the event loop only when no other coroutine
\* is inside a synchronous section.
MayRun(t) == sched = "threads" \/ running \in {0, t}

\* An idle task takes the next request; idle tasks are interchangeable, so
\* the least of them takes it.
IsFree(t) ==
    /\ MayRun(t)
    /\ task[t].pc = "idle"
    /\ \A u \in Tasks : task[u].pc = "idle" => t <= u

\* Task t may start a new call.
MayStart(t) ==
    /\ IsFree(t)
    /\ calls < MaxCalls

Fresh(op, id) == [IdleTask EXCEPT !.op = op, !.id = id]

Ok(v) == [kind |-> "ok", val |-> v]
None == [kind |-> "None", val |-> <<>>]
Raise(e) == [kind |-> "error", val |-> e]

\* The names bound at module level in ai_service.py: its imports, the
\* class and the singleton. ("import re" stands only inside the two
\* functions of the generation parser, where it binds a local name.)
ModuleNames ==
    {"AsyncAnthropic", "httpx", "List", "Dict", "Optional", "AsyncGenerator",
     "AIProvider", "ChatMessage", "settings", "json", "AIService",
     "ai_service"}

\* The names _parse_refinement_response and _fallback_refinement_parse
\* bind themselves, besides their parameters and their variables.
RefinementLocals == {}

\* Evaluating the name of a module in a function body: a name that is
\* bound neither in the function nor in the module raises NameError.
IsBound(name, locals) == name \in locals \cup ModuleNames

\* What a step leaves unchanged unless it says otherwise.
Same == [dirs |-> dirs, manifest |-> manifest, fileData |-> fileData,
         heap |-> heap, db |-> projects_db, clock |-> clock,
         created |-> created, calls |-> calls, deleted |-> deleted,
         last |-> IdleTask, wfile |-> FALSE, wman |-> FALSE]

\* One step of task t: its new record r and the effect e of the step on the
\* disk, the heap and the cache. A call that ends leaves its record in
\* last and the task idle. Objects nothing refers to are collected.
Apply(t, r, e) ==
    LET ended == r.pc \in {"done", "cancelled"}
        rw == [r EXCEPT !.wrote = r.wrote \/ e.wfile \/ e.wman,
                        !.prev = IF ended THEN PrevOf(last) ELSE r.prev]
        T == [task EXCEPT ![t] = IF ended THEN IdleTask ELSE rw]
    IN /\ task' = T
       /\ dirs' = e.dirs
       /\ manifest' = e.manifest
       /\ fileData' = e.fileData
       /\ projects_db' = e.db
       /\ heap' = [o \in ObjIds |->
                     IF Referenced(o, e.db, T) THEN e.heap[o] ELSE NoObj]
       /\ running' = IF sched = "threads" \/ r.pc \in AwaitPcs THEN 0 ELSE t
       /\ clock' = e.clock
       /\ created' = e.created
       /\ calls' = e.calls
       /\ deleted' = e.deleted
       /\ last' = IF ended THEN rw ELSE e.last
       /\ fwrites' = IF e.wfile /\ fwrites < MaxCalls THEN fwrites + 1
                     ELSE fwrites
       /\ UNCHANGED <<sched, crashes, notStore>>

\* The call of task t ends with result v (its locals die with it). Inside
\* a chat turn an exception is caught by the turn, which then ends.
Finish(t, v) == [task[t] EXCEPT !.pc = "done", !.ret = v, !.proj = 0,
                                !.ops = <<>>, !.scan = {}]

----------------------------------------------------------------------------
(* open(full_path, "w") preceded by full_path.parent.mkdir(parents=True) *)

WriteDirs(id) == dirs \cup {id}
WriteData(id, path, content) ==
    [fileData EXCEPT ![id][path] = TextWrite(content)]

\* _save_project_metadata(project): dump the object into project.json and
\* make it the cached object.
SaveManifest(H, o, id) == [manifest EXCEPT ![id] =
    [exists |-> TRUE, files |-> H[o].files, updated_at |-> H[o].updated_at]]
SaveDb(D, o, id) == [D EXCEPT ![id] = o]

----------------------------------------------------------------------------
(* CodeGeneratorService *)

\* create_project: a fresh uuid, its directory, a Project with no files,
\* cached and persisted.
CreateProject(t) ==
    /\ IsFree(t)
    /\ \E id \in ProjectIds \ created :
       LET o == FreeObj
           H == [heap EXCEPT ![o] = [files |-> <<>>, updated_at |-> clock + 1]]
       IN Apply(t, [Fresh("create_project", id) EXCEPT !.pc = "done",
                                                       !.ret = Ok(id)],
                [Same EXCEPT !.dirs = dirs \cup {id},
                             !.heap = H,
                             !.db = SaveDb(projects_db, o, id),
                             !.manifest = SaveManifest(H, o, id),
                             !.clock = clock + 1,
                             !.created = created \cup {id},
                             !.wman = TRUE])

\* get_project as the claim of a NotFound error has it: raise without a
\* Project.
ProjectOrRaise(o, H) == IF o = 0 THEN Raise("ValueError") ELSE Ok(H[o].files)

\* What get_project hands back for object o of heap H: "return
\* self.projects_db[project_id]", or what the load returned (None without
\* a manifest).
ProjectOrNone(o, H) == IF o = 0 THEN None ELSE Ok(H[o].files)

\* get_project(id): the cached Project, else the one loaded from disk,
\* else None.
GetProject(t) ==
    /\ MayStart(t)
    /\ \E id \in ProjectIds :
         LET o == GetObj(id)
             H == GetHeap(id)
             r == [Fresh("get_project", id) EXCEPT !.pc = "done",
                      !.ret = ProjectOrNone(o, H)]
         IN Apply(t, r, [Same EXCEPT !.heap = H, !.db = GetDb(id),
                                     !.calls = calls + 1])

\* list_projects: iterate the directories under projects_path.
ListProjects(t) ==
    /\ MayStart(t)
    /\ Apply(t, [Fresh("list_projects", 0) EXCEPT
                    !.pc = IF dirs = {} THEN "done" ELSE "lp_scan",
                    !.scan = dirs, !.ret = Ok(<<>>)],
             [Same EXCEPT !.calls = calls + 1])

\* list_projects, one directory: _load_project_metadata(project_dir.name),
\* which replaces the cache entry by the object it builds.
ListLoad(t) ==
    /\ MayRun(t)
    /\ task[t].pc = "lp_scan"
    /\ \E d \in task[t].scan :
         LET rest == task[t].scan \ {d}
             r == [task[t] EXCEPT !.scan = rest,
                      !.pc = IF rest = {} THEN "done" ELSE "lp_scan"]
         IN Apply(t, r, [Same EXCEPT !.heap = LoadHeap(d), !.db = LoadDb(d)])

\* get_project_files(id): the files of project.files that exist on disk.
GetProjectFiles(t) ==
    /\ MayStart(t)
    /\ \E id \in ProjectIds :
         LET o == GetObj(id)
             H == GetHeap(id)
             r == [Fresh("get_project_files", id) EXCEPT !.pc = "done",
                      !.ret = IF o = 0 THEN Raise("ValueError")
                              ELSE Ok({ <<p, TextRead(fileData[id][p])>> :
                                        p \in ListedFiles(H, o, id) })]
         IN Apply(t, r, [Same EXCEPT !.heap = H, !.db = GetDb(id),
                                     !.calls = calls + 1])

\* get_file_content reading through the manifest's file list.
ReadFileListed(id, path) ==
    IF path = BadPath THEN Raise("IsADirectoryError")
    ELSE IF fileData[id][path] = NoFile
            \/ path \notin SeqToSet(manifest[id].files) THEN None
    ELSE Ok(TextRead(fileData[id][path]))

\* "if project_path.exists(): with open(project_path, 'r') as f: return
\* f.read()", else None: the disk is asked, not project.files.
ReadFile(id, path) ==
    IF path = BadPath THEN Raise("IsADirectoryError")
    ELSE IF fileData[id][path] = NoFile THEN None
    ELSE Ok(TextRead(fileData[id][path]))

\* get_file_content(id, path).
GetFileContent(t) ==
    /\ MayStart(t)
    /\ \E id \in ProjectIds, path \in Paths :
         LET r == [Fresh("get_file_content", id) EXCEPT !.pc = "done",
                      !.path = path, !.ret = ReadFile(id, path)]
         IN Apply(t, r, [Same EXCEPT !.calls = calls + 1])

----------------------------------------------------------------------------
(* save_file(project_id, file_path, content) *)

\* save_file entered by task t whose record is r: "project =
\* self.get_project(project_id); if not project: raise ValueError".
SaveFileEnter(t, r) ==
    LET o == GetObj(r.id)
    IN Apply(t,
             IF o = 0
             THEN [r EXCEPT !.pc = "done", !.ret = Raise("ValueError"),
                            !.ops = <<>>]
             ELSE [r EXCEPT !.pc = "sf_write", !.proj = o],
             [Same EXCEPT !.heap = GetHeap(r.id), !.db = GetDb(r.id),
                          !.calls = IF r.turn THEN calls ELSE calls + 1])

\* A caller other than the refinement loop calls save_file.
SfGet(t) ==
    /\ MayStart(t)
    /\ \E id \in ProjectIds, path \in Paths, content \in Contents :
         SaveFileEnter(t, [Fresh("save_file", id) EXCEPT !.path = path,
                                                     !.content = content])

\* "full_path.parent.mkdir(parents=True, exist_ok=True);
\*  with open(full_path, 'w') as f: f.write(content)"
SfWrite(t) ==
    /\ MayRun(t)
    /\ task[t].pc = "sf_write"
    /\ IF task[t].path = BadPath
       THEN Apply(t, Finish(t, Raise("IsADirectoryError")), Same)
       ELSE Apply(t, [task[t] EXCEPT !.pc = "sf_append"],
                  [Same EXCEPT !.dirs = WriteDirs(task[t].id),
                               !.fileData = WriteData(task[t].id, task[t].path,
                                                      task[t].content),
                               !.wfile = TRUE])

\* "if file_path not in project.files: project.files.append(file_path)"
SfAppend(t) ==
    /\ MayRun(t)
    /\ task[t].pc = "sf_append"
    /\ Apply(t, [task[t] EXCEPT !.pc = "sf_bump"],
             [Same EXCEPT !.heap = AppendPath(heap, task[t].proj, task[t].path)])

\* save_file bumping updated_at only after the manifest is persisted: at
\* this point nothing is bumped yet.
SfBumpLate(t) ==
    /\ MayRun(t)
    /\ task[t].pc = "sf_bump"
    /\ Apply(t, [task[t] EXCEPT !.pc = "sf_persist"], Same)

\* "project.updated_at = datetime.now()"
SfBump(t) ==
    /\ MayRun(t)
    /\ task[t].pc = "sf_bump"
    /\ Apply(t, [task[t] EXCEPT !.pc = "sf_persist"],
             [Same EXCEPT !.heap = BumpUpdated(heap, task[t].proj),
                          !.clock = clock + 1])

\* "self._save_project_metadata(project); return {...}". Inside a chat turn
\* the refinement loop yields the saved file next.
SfPersist(t) ==
    /\ MayRun(t)
    /\ task[t].pc = "sf_persist"
    /\ LET id == task[t].id
           o == task[t].proj
       IN IF id \notin dirs
          THEN Apply(t, Finish(t, Raise("FileNotFoundError")), Same)
          ELSE Apply(t,
                     IF task[t].turn
                     THEN [task[t] EXCEPT !.pc = "cs_yield", !.proj = 0,
                                          !.ret = Ok(task[t].path)]
                     ELSE Finish(t, Ok(task[t].path)),
                     [Same EXCEPT !.manifest = SaveManifest(heap, o, id),
                                  !.db = SaveDb(projects_db, o, id),
                                  !.wman = TRUE,
                                  !.last = [Fresh("save_file", id) EXCEPT
                                               !.pc = "done", !.turn = TRUE,
                                               !.wrote = TRUE,
                                               !.prev = PrevOf(last),
                                               !.path = task[t].path,
                                               !.content = task[t].content,
                                               !.ret = Ok(task[t].path)]])

----------------------------------------------------------------------------
(* generate_file(project_id, prompt) *)

\* generate_file entered by task t whose record is r, up to its await of
\* ai_service.generate_code.
GenerateFileEnter(t, r) ==
    LET o == GetObj(r.id)
    IN Apply(t,
             IF o = 0
             THEN [r EXCEPT !.pc = "done", !.ret = Raise("ValueError")]
             ELSE [r EXCEPT !.pc = "gf_llm", !.proj = o],
             [Same EXCEPT !.heap = GetHeap(r.id), !.db = GetDb(r.id),
                          !.calls = IF r.turn THEN calls ELSE calls + 1])

GfGet(t) ==
    /\ MayStart(t)
    /\ \E id \in ProjectIds : GenerateFileEnter(t, Fresh("generate_file", id))

\* The LLM call returns: code_result gives the filename and the code.
GfLlm(t) ==
    /\ MayRun(t)
    /\ task[t].pc = "gf_llm"
    /\ \E path \in Paths, content \in GenContents :
         Apply(t, [task[t] EXCEPT !.pc = "gf_write", !.path = path,
                                  !.content = content,
                                  !.raw = RawOf("generate_code", CodePrompt)],
               Same)

\* The LLM call raises.
GfLlmFail(t) ==
    /\ MayRun(t)
    /\ task[t].pc = "gf_llm"
    /\ Apply(t, Finish(t, Raise("LLMError")), Same)

\* "full_file_path.parent.mkdir(...); with open(full_file_path, 'w') ..."
GfWrite(t) ==
    /\ MayRun(t)
    /\ task[t].pc = "gf_write"
    /\ IF task[t].path = BadPath
       THEN Apply(t, Finish(t, Raise("IsADirectoryError")), Same)
       ELSE Apply(t, [task[t] EXCEPT !.pc = "gf_update"],
                  [Same EXCEPT !.dirs = WriteDirs(task[t].id),
                               !.fileData = WriteData(task[t].id, task[t].path,
                                                      task[t].content),
                               !.wfile = TRUE])

\* "if file_path not in project.files: ...append; project.updated_at = now"
GfUpdate(t) ==
    /\ MayRun(t)
    /\ task[t].pc = "gf_update"
    /\ Apply(t, [task[t] EXCEPT !.pc = "gf_persist"],
             [Same EXCEPT !.heap = BumpUpdated(
                              AppendPath(heap, task[t].proj, task[t].path),
                              task[t].proj),
                          !.clock = clock + 1])

\* "self._save_project_metadata(project)", then the code is added to
\* ChromaDB (which may raise), and the return.
GfPersist(t) ==
    /\ MayRun(t)
    /\ task[t].pc = "gf_persist"
    /\ LET id == task[t].id
           o == task[t].proj
       IN IF id \notin dirs
          THEN Apply(t, Finish(t, Raise("FileNotFoundError")), Same)
          ELSE LET e == [Same EXCEPT !.manifest = SaveManifest(heap, o, id),
                                     !.db = SaveDb(projects_db, o, id),
                                     !.wman = TRUE]
               IN \/ Apply(t, Finish(t, Ok(task[t].path)), e)
                  \/ Apply(t, Finish(t, Raise("ChromaError")), e)

----------------------------------------------------------------------------
(* generate_project(project_id, prompt) *)

\* The file operations a parser can return: at most MaxGenFiles entries.
FileOp == [path : Paths, content : GenContents]
OpSeqs == UNION { [1..n -> FileOp] : n \in 0..MaxGenFiles }

\* generate_project persisting the manifest before it awaits the LLM.
GenerateProjectEnterTouch(t, r) ==
    LET o == GetObj(r.id)
        H == GetHeap(r.id)
    IN Apply(t,
             IF o = 0
             THEN [r EXCEPT !.pc = "done", !.ret = Raise("ValueError")]
             ELSE [r EXCEPT !.pc = "gp_llm", !.proj = o],
             IF o = 0
             THEN [Same EXCEPT !.calls = IF r.turn THEN calls ELSE calls + 1]
             ELSE [Same EXCEPT !.heap = H, !.db = GetDb(r.id),
                               !.manifest = SaveManifest(H, o, r.id),
                               !.wman = TRUE,
                               !.calls = IF r.turn THEN calls ELSE calls + 1])

\* generate_project entered by task t whose record is r, up to its await of
\* ai_service.generate_project_files.
GenerateProjectEnter(t, r) ==
    LET o == GetObj(r.id)
    IN Apply(t,
             IF o = 0
             THEN [r EXCEPT !.pc = "done", !.ret = Raise("ValueError")]
             ELSE [r EXCEPT !.pc = "gp_llm", !.proj = o],
             [Same EXCEPT !.heap = GetHeap(r.id), !.db = GetDb(r.id),
                          !.calls = IF r.turn THEN calls ELSE calls + 1])

GpGet(t) ==
    /\ MayStart(t)
    /\ \E id \in ProjectIds :
         GenerateProjectEnter(t, Fresh("generate_project", id))

\* The LLM call returns and its whole text is parsed: result["files"].
GpLlm(t) ==
    /\ MayRun(t)
    /\ task[t].pc = "gp_llm"
    /\ \E files \in OpSeqs :
         Apply(t, [task[t] EXCEPT !.pc = "gp_loop", !.ops = files,
                      !.raw = RawOf("generate_project_files", CodePrompt)],
               Same)

\* The LLM call raises.
GpLlmFail(t) ==
    /\ MayRun(t)
    /\ task[t].pc = "gp_llm"
    /\ Apply(t, Finish(t, Raise("LLMError")), Same)

\* One round of "for file_info in result.get('files', [])": write the file,
\* then record its path in project.files, then add the code to ChromaDB;
\* when chroma_service.add_code_snippet raises, the call ends there.
GpSave(t) ==
    /\ MayRun(t)
    /\ task[t].pc = "gp_loop"
    /\ task[t].ops # <<>>
    /\ LET f == Head(task[t].ops)
       IN IF f.path = BadPath
          THEN Apply(t, Finish(t, Raise("IsADirectoryError")), Same)
          ELSE LET e == [Same EXCEPT
                            !.dirs = WriteDirs(task[t].id),
                            !.fileData = WriteData(task[t].id, f.path,
                                                   f.content),
                            !.heap = AppendPath(heap, task[t].proj, f.path),
                            !.wfile = TRUE]
               IN \/ Apply(t, [task[t] EXCEPT !.ops = Tail(@),
                                  !.path = f.path, !.content = f.content], e)
                  \/ Apply(t, Finish(t, Raise("ChromaError")), e)

\* After the loop: "project.updated_at = datetime.now();
\* self._save_project_metadata(project)".
GpPersist(t) ==
    /\ MayRun(t)
    /\ task[t].pc = "gp_loop"
    /\ task[t].ops = <<>>
    /\ LET id == task[t].id
           o == task[t].proj
           H == BumpUpdated(heap, o)
       IN IF id \notin dirs
          THEN Apply(t, Finish(t, Raise("FileNotFoundError")),
                     [Same EXCEPT !.heap = H, !.clock = clock + 1])
          ELSE Apply(t, Finish(t, Ok(<<>>)),
                     [Same EXCEPT !.heap = H, !.clock = clock + 1,
                                  !.manifest = SaveManifest(H, o, id),
                                  !.db = SaveDb(projects_db, o, id),
                                  !.wman = TRUE])

----------------------------------------------------------------------------
(* DELETE /projects/{project_id} and a restart of the process *)

\* delete_project: 404 without a Project; else rmtree of the directory and
\* removal of the cache entry.
DeleteProject(t) ==
    /\ MayStart(t)
    /\ \E id \in ProjectIds :
         LET o == GetObj(id)
         IN IF o = 0
            THEN Apply(t, [Fresh("delete_project", id) EXCEPT !.pc = "done",
                              !.ret = Raise("HTTP404")],
                       [Same EXCEPT !.calls = calls + 1])
            ELSE Apply(t, [Fresh("delete_project", id) EXCEPT !.pc = "done",
                              !.ret = Ok(id)],
                       [Same EXCEPT
                           !.dirs = dirs \ {id},
                           !.manifest = [manifest EXCEPT ![id] = NoManifest],
                           !.fileData = [fileData EXCEPT ![id] =
                                            [p \in Paths |->
                                               IF InsideProject(p) THEN NoFile
                                               ELSE fileData[id][p]]],
                           !.db = [projects_db EXCEPT ![id] = 0],
                           !.deleted = deleted \cup {id},
                           !.calls = calls + 1])

\* The process stops at any point and is started again: every coroutine,
\* the cache and the ProjectContext objects are gone, the disk stays as it
\* is.
Crash ==
    /\ crashes < MaxCrashes
    /\ crashes' = crashes + 1
    /\ task' = [t \in Tasks |-> IdleTask]
    /\ projects_db' = [i \in ProjectIds |-> 0]
    /\ heap' = [o \in ObjIds |-> NoObj]
    /\ running' = 0
    /\ last' = IdleTask
    /\ contexts' = [i \in ProjectIds |-> None]
    /\ ctx_last' = [op |-> "restart", id |-> 0]
    /\ UNCHANGED <<dirs, manifest, fileData, sched, clock, created, calls,
                   deleted, fwrites, context_file, parseVars, turnVars,
                   indexVars, assembleVars>>

----------------------------------------------------------------------------
(* chat_stream.generate: one turn of POST /chat/stream *)

\* The turn starts: existing_files from get_project_files (an exception is
\* logged and leaves it empty); project_context is built by
\* codebase_indexer.build_ai_context when there are files and by
\* context_service.build_context_prompt otherwise; then the streamed LLM call,
\* the one that is given project_context, is awaited. Its text is streamed to
\* the client and stored, and no parser reads it.
CsStart(t) ==
    /\ MayStart(t)
    /\ \E id \in ProjectIds :
         LET o == GetObj(id)
             H == GetHeap(id)
         IN Apply(t, [Fresh("chat_stream", id) EXCEPT !.pc = "cs_stream",
                         !.turn = TRUE,
                         !.files = IF o = 0 THEN {} ELSE ListedFiles(H, o, id),
                         !.project_context =
                             IF o # 0 /\ ListedFiles(H, o, id) # {}
                             THEN "build_ai_context"
                             ELSE "build_context_prompt"],
                  [Same EXCEPT !.heap = H, !.db = GetDb(id),
                               !.calls = calls + 1])

\* The stream has ended and the message is classified: a refinement (only
\* with existing files), a project request, a file request, or plain chat.
CsRefineBranch(t) ==
    /\ MayRun(t)
    /\ task[t].pc = "cs_stream"
    /\ task[t].files # {}
    /\ Apply(t, [task[t] EXCEPT !.pc = "cs_refine_llm"], Same)

CsProjectBranch(t) ==
    /\ MayRun(t)
    /\ task[t].pc = "cs_stream"
    /\ GenerateProjectEnter(t, task[t])

CsFileBranch(t) ==
    /\ MayRun(t)
    /\ task[t].pc = "cs_stream"
    /\ GenerateFileEnter(t, task[t])

CsChatOnly(t) ==
    /\ MayRun(t)
    /\ task[t].pc = "cs_stream"
    /\ Apply(t, Finish(t, Ok(<<>>)), Same)

\* refine_code returns the parsed result: no_changes, or modified_files,
\* which the loop then saves one by one. It returns only when
\* _parse_refinement_response does, which needs the name re to be bound.
CsRefined(t) ==
    /\ MayRun(t)
    /\ task[t].pc = "cs_refine_llm"
    /\ IsBound("re", RefinementLocals)
    /\ LET r == [task[t] EXCEPT !.raw = RawOf("refine_code", RefinementPrompt)]
       IN \/ Apply(t, [Finish(t, Ok(<<"no_changes">>)) EXCEPT !.raw = r.raw],
                   Same)
          \/ \E files \in OpSeqs :
               Apply(t, [r EXCEPT !.pc = "cs_yield", !.ops = files], Same)

\* refine_code raises, in the LLM call or, once that has returned, in
\* _parse_refinement_response: "except Exception" ends the turn with an
\* error event.
CsRefineFail(t) ==
    /\ MayRun(t)
    /\ task[t].pc = "cs_refine_llm"
    /\ \/ Apply(t, Finish(t, Raise("LLMError")), Same)
       \/ /\ ~IsBound("re", RefinementLocals)
          /\ Apply(t, [Finish(t, Raise("NameError")) EXCEPT
                          !.raw = RawOf("refine_code", RefinementPrompt)],
                   Same)

\* "for file_info in result.get('modified_files', []): save_file(...)",
\* resumed after a yield.
CsSaveNext(t) ==
    /\ MayRun(t)
    /\ task[t].pc = "cs_yield"
    /\ IF task[t].ops = <<>>
       THEN Apply(t, Finish(t, Ok(<<>>)), Same)
       ELSE SaveFileEnter(t, [task[t] EXCEPT !.path = Head(task[t].ops).path,
                                 !.content = Head(task[t].ops).content,
                                 !.ops = Tail(@)])

\* The client goes away while the coroutine is suspended: it is cancelled
\* there and runs no further.
Cancel(t) ==
    /\ MayRun(t)
    /\ task[t].pc \in AwaitPcs \ {"idle", "done", "cancelled"}
    /\ Apply(t, [Finish(t, Raise("CancelledError")) EXCEPT
                    !.pc = "cancelled", !.at = task[t].pc], Same)

----------------------------------------------------------------------------
(* The store as a state machine *)

StoreInit ==
    /\ dirs = {}
    /\ manifest = [i \in ProjectIds |-> NoManifest]
    /\ fileData = [i \in ProjectIds |-> [p \in Paths |-> NoFile]]
    /\ projects_db = [i \in ProjectIds |-> 0]
    /\ heap = [o \in ObjIds |-> NoObj]
    /\ task = [t \in Tasks |-> IdleTask]
    /\ running = 0
    /\ clock = 0
    /\ created = {}
    /\ calls = 0
    /\ crashes = 0
    /\ last = IdleTask
    /\ deleted = {}
    /\ fwrites = 0

ParseIdle ==
    /\ blocks = <<>>
    /\ fenced = <<>>
    /\ sections = [deps |-> <<>>, expl |-> <<>>]
    /\ response = <<>>
    /\ existing = <<>>
    /\ parsed = <<>>
    /\ phase = "input"

TurnIdle ==
    /\ message = <<>>
    /\ has_existing_files = FALSE
    /\ is_refinement = None

IndexIdle ==
    /\ input_files = <<>>
    /\ indexes = None
    /\ index = None

CtxIdle ==
    /\ contexts = [i \in ProjectIds |-> None]
    /\ context_file = [i \in ProjectIds |-> None]
    /\ ctx_last = [op |-> "none", id |-> 0]

AssembleIdle ==
    /\ user_query = ""
    /\ max_files = 0
    /\ context = None

Init ==
    /\ StoreInit /\ sched = "asyncio"
    /\ ParseIdle /\ TurnIdle /\ IndexIdle /\ AssembleIdle /\ CtxIdle

InitThreads ==
    /\ StoreInit /\ sched = "threads"
    /\ ParseIdle /\ TurnIdle /\ IndexIdle /\ AssembleIdle /\ CtxIdle

Next ==
    \/ \E t \in Tasks :
         \/ CreateProject(t) \/ GetProject(t) \/ ListProjects(t) \/ ListLoad(t)
         \/ GetProjectFiles(t) \/ GetFileContent(t)
         \/ SfGet(t) \/ SfWrite(t) \/ SfAppend(t) \/ SfBump(t) \/ SfPersist(t)
         \/ GfGet(t) \/ GfLlm(t) \/ GfLlmFail(t) \/ GfWrite(t) \/ GfUpdate(t)
         \/ GfPersist(t)
         \/ GpGet(t) \/ GpLlm(t) \/ GpLlmFail(t) \/ GpSave(t) \/ GpPersist(t)
         \/ DeleteProject(t)
         \/ CsStart(t) \/ CsRefineBranch(t) \/ CsProjectBranch(t)
         \/ CsFileBranch(t) \/ CsChatOnly(t) \/ CsRefineFail(t) \/ Cancel(t)
    \/ Crash

\* The routes as they are: coroutines of one asyncio event loop. CsRefined
\* and CsSaveNext are no steps of it: they follow a refine_code that has
\* returned, and it never does.
Spec == Init /\ [][Next]_vars

\* save_file and the reads called from threads: no step of one call
\* excludes a step of another, as nothing in the store takes a lock.
NextThreads ==
    \/ \E t \in Tasks :
         \/ CreateProject(t) \/ GetProject(t) \/ ListProjects(t) \/ ListLoad(t)
         \/ GetProjectFiles(t) \/ GetFileContent(t)
         \/ SfGet(t) \/ SfWrite(t) \/ SfAppend(t) \/ SfBump(t) \/ SfPersist(t)
    \/ Crash

SpecThreads == InitThreads /\ [][NextThreads]_vars

----------------------------------------------------------------------------
(* Text. A string is a sequence of tokens: each token stands for its
   characters, "LF" for a newline, "FENCE" for three backticks, "===" for
   three equals signs (an equals sign occurs in no other token). *)

Ws == {" ", "LF", "CR"}
Word == {"a", "b", "c", "n", "x", "y", "py", "js", "txt", "python", "PY",
         "Py", "modified", "END_FILE", "none", "test", "NO_CHANGES", "END",
         "CHANGES_SUMMARY", "END_SUMMARY"}
OpenSentinel == <<"===", "FILE:">>
EndSentinel == <<"===", "END_FILE", "===">>

\* s[i..j], empty when j < i.
Sub(s, i, j) == IF j < i THEN <<>> ELSE SubSeq(s, i, j)

\* Does s hold the literal lit at position i?
At(s, i, lit) ==
    /\ i >= 1
    /\ i + Len(lit) - 1 <= Len(s)
    /\ SubSeq(s, i, i + Len(lit) - 1) = lit

\* The least position >= i where s holds lit; 0 when there is none.
RECURSIVE Find(_, _, _)
Find(s, i, lit) ==
    IF i + Len(lit) - 1 > Len(s) THEN 0
    ELSE IF At(s, i, lit) THEN i
    ELSE Find(s, i + 1, lit)

\* str.lstrip(), str.rstrip(), str.strip()
RECURSIVE LStrip(_)
LStrip(s) == IF s # <<>> /\ Head(s) \in Ws THEN LStrip(Tail(s)) ELSE s

RECURSIVE RStrip(_)
RStrip(s) ==
    IF s # <<>> /\ s[Len(s)] \in Ws THEN RStrip(Sub(s, 1, Len(s) - 1))
    ELSE s

Strip(s) == RStrip(LStrip(s))

\* str.split('\n'): the lines of s, at least one.
RECURSIVE SplitLines(_)
SplitLines(s) ==
    LET n == Find(s, 1, <<"LF">>)
    IN IF n = 0 THEN <<s>>
       ELSE <<Sub(s, 1, n - 1)>> \o SplitLines(Sub(s, n + 1, Len(s)))

\* '\n'.join(lines)
RECURSIVE JoinLines(_)
JoinLines(lines) ==
    IF lines = <<>> THEN <<>>
    ELSE IF Len(lines) = 1 THEN lines[1]
    ELSE lines[1] \o <<"LF">> \o JoinLines(Tail(lines))

\* The length of the longest run of tokens of class C that s has from
\* position i on.
RECURSIVE Run(_, _, _)
Run(s, i, C) ==
    IF i <= Len(s) /\ s[i] \in C THEN 1 + Run(s, i + 1, C) ELSE 0

----------------------------------------------------------------------------
(* AIService._parse_multi_file_response *)

NoMatch == [ok |-> FALSE, g1 |-> <<>>, g2 |-> <<>>, next |-> 0]

\* re: ===FILE:\s*([^=]+)===\s*([\s\S]*?)===END_FILE=== matched at
\* position i of s. The greedy \s* leaves the path group its last
\* character when the path is all whitespace.
FileMatchAt(s, i) ==
    LET p == i + Len(OpenSentinel)
        k == Find(s, p, <<"===">>)
        w == Run(s, p, Ws)
        e == IF k = 0 THEN 0 ELSE Find(s, k + 1, EndSentinel)
    IN IF At(s, i, OpenSentinel) /\ k > p /\ e # 0
       THEN [ok |-> TRUE,
             g1 |-> IF p + w = k THEN Sub(s, k - 1, k - 1)
                    ELSE Sub(s, p + w, k - 1),
             g2 |-> Sub(s, k + 1 + Run(s, k + 1, Ws), e - 1),
             next |-> e + Len(EndSentinel)]
       ELSE NoMatch

\* re.findall(file_pattern, response), scanning from position i.
RECURSIVE FileMatches(_, _)
FileMatches(s, i) ==
    IF i > Len(s) THEN <<>>
    ELSE LET m == FileMatchAt(s, i)
         IN IF m.ok THEN <<m>> \o FileMatches(s, m.next)
            ELSE FileMatches(s, i + 1)

\* A parser that leaves a fence around the content.
KeepFence(content) == content

\* "if content.startswith('```'): lines = content.split('\n');
\*  lines = lines[1:]; if lines and lines[-1].strip() == '```':
\*  lines = lines[:-1]; content = '\n'.join(lines)"
Unfence(content) ==
    IF content # <<>> /\ Head(content) = "FENCE"
    THEN LET lines == Tail(SplitLines(content))
             n == Len(lines)
         IN IF n > 0 /\ Strip(lines[n]) = <<"FENCE">>
            THEN JoinLines(Sub(lines, 1, n - 1))
            ELSE JoinLines(lines)
    ELSE content

\* The loop over the matches: "if filepath and content: append".
\* The loop of lines 400-418 without its test "if filepath and content".
RECURSIVE FileEntriesUnfiltered(_)
FileEntriesUnfiltered(ms) ==
    IF ms = <<>> THEN <<>>
    ELSE <<[path |-> Strip(ms[1].g1),
            content |-> Unfence(Strip(ms[1].g2))]>>
         \o FileEntriesUnfiltered(Tail(ms))

RECURSIVE FileEntries(_)
FileEntries(ms) ==
    IF ms = <<>> THEN <<>>
    ELSE LET filepath == Strip(ms[1].g1)
             content == Unfence(Strip(ms[1].g2))
         IN (IF filepath # <<>> /\ content # <<>>
             THEN <<[path |-> filepath, content |-> content]>>
             ELSE <<>>) \o FileEntries(Tail(ms))

----------------------------------------------------------------------------
(* AIService._extract_code_blocks_as_files *)

\* The last newline of s in lo..hi; 0 when there is none.
RECURSIVE LastLF(_, _, _)
LastLF(s, lo, hi) ==
    IF hi < lo THEN 0
    ELSE IF s[hi] = "LF" THEN hi
    ELSE LastLF(s, lo, hi - 1)

\* re: ```(\w+)?\s*\n([\s\S]*?)``` matched at position i of s.
CodeBlockAt(s, i) ==
    LET w == Run(s, i + 1, Word)
        ws == Run(s, i + 1 + w, Ws)
        n == LastLF(s, i + 1 + w, i + w + ws)
        f == IF n = 0 THEN 0 ELSE Find(s, n + 1, <<"FENCE">>)
    IN IF At(s, i, <<"FENCE">>) /\ f # 0
       THEN [ok |-> TRUE, g1 |-> Sub(s, i + 1, i + w),
             g2 |-> Sub(s, n + 1, f - 1), next |-> f + 1]
       ELSE NoMatch

\* re.findall(code_block_pattern, response), scanning from position i.
RECURSIVE CodeBlocks(_, _)
CodeBlocks(s, i) ==
    IF i > Len(s) THEN <<>>
    ELSE LET m == CodeBlockAt(s, i)
         IN IF m.ok THEN <<m>> \o CodeBlocks(s, m.next)
            ELSE CodeBlocks(s, i + 1)

\* The characters of a run of tokens.
RECURSIVE Text(_)
Text(toks) == IF toks = <<>> THEN "" ELSE Head(toks) \o Text(Tail(toks))

\* str.lower(), for the tokens that have upper-case letters.
Lower(toks) ==
    [i \in 1..Len(toks) |->
        CASE toks[i] = "END_FILE" -> "end_file"
          [] toks[i] \in {"PY", "Py"} -> "py"
          [] toks[i] = "NO_CHANGES" -> "no_changes"
          [] toks[i] = "END" -> "end"
          [] toks[i] = "CHANGES_SUMMARY" -> "changes_summary"
          [] toks[i] = "END_SUMMARY" -> "end_summary"
          [] toks[i] = "MODIFIED_FILE:" -> "modified_file:"
          [] toks[i] = "FILE:" -> "file:"
          [] toks[i] = "DEPENDENCIES:" -> "dependencies:"
          [] toks[i] = "EXPLANATION:" -> "explanation:"
          [] toks[i] = "Make" -> "make"
          [] OTHER -> toks[i]]

\* extension_map, each file name as the pair rsplit('.', 1) gives.
extension_map ==
    [l \in {"html", "css", "javascript", "js", "python", "py", "json",
            "typescript", "ts", "jsx", "tsx"} |->
        CASE l = "html" -> [name |-> "index", ext |-> "html"]
          [] l = "css" -> [name |-> "style", ext |-> "css"]
          [] l \in {"javascript", "js"} -> [name |-> "app", ext |-> "js"]
          [] l \in {"python", "py"} -> [name |-> "main", ext |-> "py"]
          [] l = "json" -> [name |-> "package", ext |-> "json"]
          [] l \in {"typescript", "ts"} -> [name |-> "app", ext |-> "ts"]
          [] l = "jsx" -> [name |-> "App", ext |-> "jsx"]
          [] l = "tsx" -> [name |-> "App", ext |-> "tsx"]]

\* "lang = (lang or 'txt').lower();
\*  base_name = extension_map.get(lang, f'file.{lang}')", as the pair that
\* base_name.rsplit('.', 1) gives.
BaseName(lang) ==
    LET l == IF lang = <<>> THEN "txt" ELSE Text(Lower(lang))
    IN IF l \in DOMAIN extension_map THEN extension_map[l]
       ELSE [name |-> "file", ext |-> l]

\* A fallback that gives every block its base name.
BaseNameOnly(base, used, counter) == base.name \o "." \o base.ext

\* "while filename in used_names: filename = f'{name}_{counter}.{ext}';
\*  counter += 1"
RECURSIVE UniqueName(_, _, _)
UniqueName(base, used, counter) ==
    LET filename == IF counter = 0 THEN base.name \o "." \o base.ext
                    ELSE base.name \o "_" \o ToString(counter) \o "."
                         \o base.ext
    IN IF filename \in used THEN UniqueName(base, used, counter + 1)
       ELSE filename

\* The loop over the code blocks: "used_names.add(filename);
\*  if content.strip(): files.append(...)".
RECURSIVE CodeBlockEntries(_, _)
CodeBlockEntries(ms, used) ==
    IF ms = <<>> THEN <<>>
    ELSE LET filename == UniqueName(BaseName(ms[1].g1), used, 0)
             content == Strip(ms[1].g2)
         IN (IF content # <<>>
             THEN <<[path |-> <<filename>>, content |-> content]>>
             ELSE <<>>)
            \o CodeBlockEntries(Tail(ms), used \cup {filename})

_extract_code_blocks_as_files(s) == CodeBlockEntries(CodeBlocks(s, 1), {})

----------------------------------------------------------------------------
(* The dependencies, the explanation and the result of the generation
   parser *)

\* str.lstrip('-')
RECURSIVE LStripDash(_)
LStripDash(s) == IF s # <<>> /\ Head(s) = "-" THEN LStripDash(Tail(s)) ELSE s

\* "[d.strip() for d in deps_text.split('\n')
\*   if d.strip() and not d.startswith('-')]"
RECURSIVE BareDeps(_)
BareDeps(lines) ==
    IF lines = <<>> THEN <<>>
    ELSE LET d == lines[1]
         IN (IF Strip(d) # <<>> /\ ~(d # <<>> /\ Head(d) = "-")
             THEN <<Strip(d)>> ELSE <<>>) \o BareDeps(Tail(lines))

\* "[d.strip().lstrip('-').strip() for d in deps_text.split('\n')
\*   if d.strip().startswith('-')]"
RECURSIVE DashDeps(_)
DashDeps(lines) ==
    IF lines = <<>> THEN <<>>
    ELSE LET d == Strip(lines[1])
         IN (IF d # <<>> /\ Head(d) = "-"
             THEN <<Strip(LStripDash(d))>> ELSE <<>>)
            \o DashDeps(Tail(lines))

\* "[d for d in deps if d]"
RECURSIVE NonEmpty(_)
NonEmpty(ds) ==
    IF ds = <<>> THEN <<>>
    ELSE (IF ds[1] # <<>> THEN <<ds[1]>> ELSE <<>>) \o NonEmpty(Tail(ds))

\* re.search(r'DEPENDENCIES:\s*([\s\S]*?)(?:EXPLANATION:|$)', response)
\* and what is made of its group.
Dependencies(s) ==
    LET d == Find(s, 1, <<"DEPENDENCIES:">>)
        x == IF d = 0 THEN 0 ELSE Find(s, d + 1, <<"EXPLANATION:">>)
        deps_text == Strip(Sub(s, d + 1, IF x = 0 THEN Len(s) ELSE x - 1))
        lines == SplitLines(deps_text)
    IN IF d = 0 THEN <<>>
       ELSE NonEmpty(BareDeps(lines) \o DashDeps(lines))

\* re.search(r'EXPLANATION:\s*([\s\S]*?)$', response), its group
\* stripped.
Explanation(s) ==
    LET x == Find(s, 1, <<"EXPLANATION:">>)
    IN IF x = 0 THEN <<>> ELSE Strip(Sub(s, x + 1, Len(s)))

\* The files of the sentinel blocks of s.
SentinelFiles(s) == FileEntries(FileMatches(s, 1))

\* A parser that adds the fenced code blocks whatever the sentinel blocks
\* gave.
ResultFilesWithBlocks(s, files) == files \o _extract_code_blocks_as_files(s)

\* "if not result["files"]:
\*      result["files"] = self._extract_code_blocks_as_files(response)"
ResultFiles(s, files) ==
    IF files = <<>> THEN _extract_code_blocks_as_files(s) ELSE files

_parse_multi_file_response(s) ==
    [files |-> ResultFiles(s, SentinelFiles(s)),
     dependencies |-> Dependencies(s),
     explanation |-> Explanation(s)]

----------------------------------------------------------------------------
(* AIService._parse_refinement_response and _fallback_refinement_parse *)

NoChangesSentinel == <<"===", "NO_CHANGES", "===">>

\* re.search(open \s*(.*?)\s* close, response, re.DOTALL): the group,
\* stripped; empty when there is no match.
Between(s, open, close) ==
    LET i == Find(s, 1, open)
        e == IF i = 0 THEN 0 ELSE Find(s, i + Len(open), close)
    IN IF e = 0 THEN <<>> ELSE Strip(Sub(s, i + Len(open), e - 1))

\* re: ===MODIFIED_FILE:\s*([^\n=]+)===\s*(.*?)\s*===END_FILE===
\* matched at position i of s. The path group holds no newline: the
\* greedy \s* before it takes the whitespace up to the path, and leaves
\* it one character when there is nothing else.
ModifiedMatchAt(s, i) ==
    LET p == i + 2
        q == Find(s, p, <<"===">>)
        w == Run(s, p, Ws)
        lf == IF q = 0 THEN 0 ELSE LastLF(s, p, q - 1)
        m == IF p + w < q - 1 THEN p + w ELSE q - 1
        e == IF q = 0 THEN 0 ELSE Find(s, q + 1, EndSentinel)
    IN IF /\ At(s, i, <<"===", "MODIFIED_FILE:">>)
          /\ q > p
          /\ lf = 0 \/ (lf < q - 1 /\ p + w > lf)
          /\ e # 0
       THEN [ok |-> TRUE, g1 |-> Sub(s, m, q - 1),
             g2 |-> Sub(s, q + 1, e - 1), next |-> e + Len(EndSentinel)]
       ELSE NoMatch

\* re.findall(file_pattern, response, re.DOTALL), scanning from position i.
RECURSIVE ModifiedMatches(_, _)
ModifiedMatches(s, i) ==
    IF i > Len(s) THEN <<>>
    ELSE LET m == ModifiedMatchAt(s, i)
         IN IF m.ok THEN <<m>> \o ModifiedMatches(s, m.next)
            ELSE ModifiedMatches(s, i + 1)

\* The loop over the matches: "is_new = filepath not in existing_files".
ModifiedEntries(ms, existing_files) ==
    [k \in 1..Len(ms) |->
        LET filepath == Strip(ms[k].g1)
        IN [path |-> filepath, content |-> Strip(ms[k].g2),
            is_new |-> filepath \notin SeqToSet(existing_files)]]

\* "ext = path.rsplit('.', 1)[-1].lower()"
RECURSIVE LastDot(_, _)
LastDot(path, i) ==
    IF i = 0 THEN 0 ELSE IF path[i] = "." THEN i ELSE LastDot(path, i - 1)

ExtOf(path) == Text(Lower(Sub(path, LastDot(path, Len(path)) + 1, Len(path))))

\* lang_map: extension -> the language tags that name it.
lang_map ==
    [x \in {"html", "css", "js", "ts", "py", "json"} |->
        CASE x = "html" -> {"html"}
          [] x = "css" -> {"css", "scss", "sass"}
          [] x = "js" -> {"javascript", "js"}
          [] x = "ts" -> {"typescript", "ts"}
          [] x = "py" -> {"python", "py"}
          [] x = "json" -> {"json"}]

\* Is the language tag an alias of the extension of path?
NamesLang(path, lang) ==
    ExtOf(path) \in DOMAIN lang_map /\ lang \in lang_map[ExtOf(path)]

\* lang_to_existing[lang]: the last of the existing files, in the order of
\* the map's keys, whose extension the tag names; <<>> when lang is no
\* key of lang_to_existing.
RECURSIVE lang_to_existing(_, _)
lang_to_existing(existing_files, lang) ==
    IF existing_files = <<>> THEN <<>>
    ELSE LET n == Len(existing_files)
         IN IF NamesLang(existing_files[n], lang) THEN existing_files[n]
            ELSE lang_to_existing(Sub(existing_files, 1, n - 1), lang)

\* "ext_map.get(lang, lang) if lang else 'txt'"
ext_map(lang) ==
    IF lang = "" THEN "txt"
    ELSE IF lang = "javascript" THEN "js"
    ELSE IF lang = "typescript" THEN "ts"
    ELSE IF lang = "python" THEN "py"
    ELSE lang

\* The loop of _fallback_refinement_parse over the code blocks.
RECURSIVE FallbackEntries(_, _)
FallbackEntries(ms, existing_files) ==
    IF ms = <<>> THEN <<>>
    ELSE LET lang == Text(Lower(ms[1].g1))
             path == lang_to_existing(existing_files, lang)
             content == Strip(ms[1].g2)
         IN (IF path # <<>>
             THEN <<[path |-> path, content |-> content, is_new |-> FALSE]>>
             ELSE IF content # <<>>
             THEN <<[path |-> <<"modified", ".", ext_map(lang)>>,
                     content |-> content, is_new |-> TRUE]>>
             ELSE <<>>) \o FallbackEntries(Tail(ms), existing_files)

_fallback_refinement_parse(s, existing_files) ==
    IF ~IsBound("re", RefinementLocals) THEN Raise("NameError")
    ELSE Ok(FallbackEntries(CodeBlocks(s, 1), existing_files))

\* The parser from "# Extract summary" on.
RefinedFiles(s, existing_files) ==
    LET summary == Between(s, <<"===", "CHANGES_SUMMARY", "===">>,
                           <<"===", "END_SUMMARY", "===">>)
        files == ModifiedEntries(ModifiedMatches(s, 1), existing_files)
        fallback == files = <<>> /\ Find(s, 1, <<"FENCE">>) # 0
    IN [summary |-> IF fallback /\ summary = <<>>
                    THEN <<"Applied requested changes.">> ELSE summary,
        modified_files |->
            IF fallback THEN _fallback_refinement_parse(s, existing_files).val
            ELSE files,
        no_changes |-> FALSE,
        explanation |-> <<>>]

\* Both branches call re.search before they return, and re is not bound.
_parse_refinement_response(s, existing_files) ==
    IF ~IsBound("re", RefinementLocals) THEN Raise("NameError")
    ELSE IF Find(s, 1, NoChangesSentinel) # 0
    THEN Ok([summary |-> <<>>, modified_files |-> <<>>, no_changes |-> TRUE,
             explanation |-> Between(s, NoChangesSentinel,
                                     <<"===", "END", "===">>)])
    ELSE Ok(RefinedFiles(s, existing_files))

----------------------------------------------------------------------------
(* The generation parser as a state machine: the LLM writes a response,
   file block after file block in the format the prompt asks for, then
   maybe some other text, and generate_project_files parses it. *)

MaxBlocks == 2

InPaths == { <<"a">>, <<"b">>, <<"b", " ">> }
InContents ==
    { <<"x">>, <<"x", "LF">>, <<>>,
      <<"FENCE", "py", "LF", "x", "LF", "FENCE">>,
      <<"x", "===", "END_FILE", "===", "y">> }
\* The opening line of the fence a block's content is wrapped in, if any.
Fences == { <<>>, <<"FENCE", "py", "LF">> }
\* "```<lang>\n<content>\n```\n"
FenceText(f) ==
    <<"FENCE">> \o f.lang \o <<"LF">> \o f.content \o <<"LF", "FENCE", "LF">>

\* "DEPENDENCIES:\n<one package per line>\n"
RECURSIVE LinesText(_)
LinesText(lines) ==
    IF lines = <<>> THEN <<>>
    ELSE Head(lines) \o <<"LF">> \o LinesText(Tail(lines))

\* "EXPLANATION:\n<brief explanation>\n"
ExplanationText(text) == <<"EXPLANATION:", "LF">> \o text \o <<"LF">>

\* What comes after the file blocks: a fenced code block; the dependencies
\* and the explanation.
Tails ==
    { [fenced |-> <<[lang |-> <<"py">>, content |-> <<"y">>]>>,
       deps |-> <<>>, expl |-> <<>>],
      [fenced |-> <<>>,
       deps |-> << <<"-", " ", "a">>, <<"b">> >>, expl |-> <<"x">>] }

TailText(t) ==
    IF t.fenced # <<>> THEN <<"LF">> \o FenceText(t.fenced[1])
    ELSE <<"LF", "DEPENDENCIES:", "LF">> \o LinesText(t.deps)
         \o ExplanationText(t.expl)

\* "===FILE: <filepath>===\n<complete file content>\n===END_FILE===\n"
BlockText(b) ==
    OpenSentinel \o <<" ">> \o b.path \o <<"===", "LF">>
    \o (IF b.fence = <<>> THEN b.content
        ELSE b.fence \o b.content \o <<"LF", "FENCE">>)
    \o <<"LF">> \o EndSentinel \o <<"LF">>

\* The LLM writes one more file block.
LlmBlock ==
    /\ phase = "input"
    /\ Len(blocks) < MaxBlocks
    /\ \E path \in InPaths, content \in InContents, fence \in Fences :
         LET b == [path |-> path, content |-> content, fence |-> fence]
         IN /\ blocks' = Append(blocks, b)
            /\ response' = response \o BlockText(b)
    /\ UNCHANGED <<fenced, sections, existing, parsed, phase, notParse>>

\* The LLM ends its response with other text.
LlmTail ==
    /\ phase = "input"
    /\ \E t \in Tails :
         /\ response' = response \o TailText(t)
         /\ fenced' = t.fenced
         /\ sections' = [deps |-> t.deps, expl |-> t.expl]
    /\ phase' = "tail"
    /\ UNCHANGED <<blocks, existing, parsed, notParse>>

\* "return self._parse_multi_file_response(response)"
ParseGeneration ==
    /\ phase \in {"input", "deps", "tail"}
    /\ parsed' = _parse_multi_file_response(response)
    /\ phase' = "generation"
    /\ UNCHANGED <<blocks, fenced, sections, response, existing, notParse>>

NextParse == LlmBlock \/ LlmTail \/ ParseGeneration

SpecParse == Init /\ [][NextParse]_vars

----------------------------------------------------------------------------
(* The generation fallback as a state machine: the LLM answers with generic
   fenced code blocks and no file block. *)

MaxFences == 3

\* The language tags after the opening fence (none, mapped ones, one in
\* upper case, unmapped ones).
Langs == { <<>>, <<"py">>, <<"python">>, <<"PY">>, <<"a">> }
FenceContents == { <<"x">>, <<>> }

\* The LLM writes one more fenced code block.
LlmFence ==
    /\ phase = "input"
    /\ Len(fenced) < MaxFences
    /\ \E lang \in Langs, content \in FenceContents :
         LET f == [lang |-> lang, content |-> content]
         IN /\ fenced' = Append(fenced, f)
            /\ response' = response \o FenceText(f)
    /\ UNCHANGED <<blocks, sections, existing, parsed, phase, notParse>>

NextFallback == LlmFence \/ ParseGeneration

SpecFallback == Init /\ [][NextFallback]_vars

----------------------------------------------------------------------------
(* The dependencies and the explanation as a state machine: the LLM writes
   the DEPENDENCIES section line by line, then maybe the explanation. *)

MaxDepLines == 3

\* A bare line, a bullet, an indented bullet, a blank line.
DepLines == { <<"none">>, <<"-", " ", "a">>, <<" ", "-", " ", "b">>, <<>> }
Explanations == { <<"test">>, <<"x", " ", "y">> }

\* The LLM opens the DEPENDENCIES section.
LlmDeps ==
    /\ phase = "input"
    /\ response' = response \o <<"DEPENDENCIES:", "LF">>
    /\ phase' = "deps"
    /\ UNCHANGED <<blocks, fenced, sections, existing, parsed, notParse>>

\* The LLM writes one more line of the section.
LlmDepLine ==
    /\ phase = "deps"
    /\ Len(sections.deps) < MaxDepLines
    /\ \E line \in DepLines :
         /\ sections' = [sections EXCEPT !.deps = Append(@, line)]
         /\ response' = response \o line \o <<"LF">>
    /\ UNCHANGED <<blocks, fenced, existing, parsed, phase, notParse>>

\* The LLM ends the response with the explanation.
LlmExplanation ==
    /\ phase = "deps"
    /\ \E text \in Explanations :
         /\ sections' = [sections EXCEPT !.expl = text]
         /\ response' = response \o ExplanationText(text)
    /\ phase' = "tail"
    /\ UNCHANGED <<blocks, fenced, existing, parsed, notParse>>

NextDeps == LlmDeps \/ LlmDepLine \/ LlmExplanation \/ ParseGeneration

SpecDeps == Init /\ [][NextDeps]_vars

----------------------------------------------------------------------------
(* The refinement parser as a state machine: refine_code is given the
   project's files, the LLM writes a response, the parser reads it *)

MaxProse == 3

APy == <<"a", ".", "py">>
CPy == <<"c", ".", "py">>
NPy == <<"n", ".", "py">>
BJs == <<"b", ".", "js">>
ModifiedTxt == <<"modified", ".", "txt">>

\* The keys of existing_files, in the order of the map.
ExistingMaps == { <<>>, <<APy>>, <<APy, CPy>>, <<CPy, APy>>, <<BJs>>,
                  <<ModifiedTxt>> }
RefPaths == { APy, NPy }
RefContents == { <<"x">>, <<>> }
RefLangs == { <<>>, <<"py">>, <<"js">> }
ProseLines == { <<"x">>, <<"x", " ", "y">>, <<>> }

\* "===MODIFIED_FILE: <filepath>===", the content, "===END_FILE===".
ModifiedText(b) ==
    <<"===", "MODIFIED_FILE:", " ">> \o b.path \o <<"===", "LF">>
    \o b.content \o <<"LF">> \o EndSentinel \o <<"LF">>

\* refine_code is called with the files of the project.
GivenFiles ==
    /\ phase = "input"
    /\ response = <<>>
    /\ \E files \in ExistingMaps : existing' = files
    /\ phase' = "refine"
    /\ UNCHANGED <<blocks, fenced, sections, response, parsed, notParse>>

\* The LLM opens with "===CHANGES_SUMMARY=== ... ===END_SUMMARY===".
LlmSummary ==
    /\ phase = "refine"
    /\ response = <<>>
    /\ response' = <<"===", "CHANGES_SUMMARY", "===", "LF", "x", "LF",
                     "===", "END_SUMMARY", "===", "LF">>
    /\ UNCHANGED <<blocks, fenced, sections, existing, parsed, phase,
                   notParse>>

\* The LLM writes one more "===MODIFIED_FILE: ...===" block.
LlmModified ==
    /\ phase = "refine"
    /\ fenced = <<>>
    /\ Len(blocks) < MaxBlocks
    /\ \E path \in RefPaths, content \in RefContents :
         LET b == [path |-> path, content |-> content, fence |-> <<>>]
         IN /\ blocks' = Append(blocks, b)
            /\ response' = response \o ModifiedText(b)
    /\ UNCHANGED <<fenced, sections, existing, parsed, phase, notParse>>

\* The LLM ignores the format and writes one more fenced code block.
LlmRefinedFence ==
    /\ phase = "refine"
    /\ blocks = <<>>
    /\ Len(fenced) < MaxFences
    /\ \E lang \in RefLangs, content \in RefContents :
         LET f == [lang |-> lang, content |-> content]
         IN /\ fenced' = Append(fenced, f)
            /\ response' = response \o FenceText(f)
    /\ UNCHANGED <<blocks, sections, existing, parsed, phase, notParse>>

\* The LLM writes "===NO_CHANGES=== ... ===END===", once, at any place.
LlmNoChanges ==
    /\ phase = "refine"
    /\ Find(response, 1, NoChangesSentinel) = 0
    /\ response' = response \o NoChangesSentinel
                       \o <<"LF", "y", "LF", "===", "END", "===", "LF">>
    /\ UNCHANGED <<blocks, fenced, sections, existing, parsed, phase,
                   notParse>>

\* The LLM writes a line of prose, with no sentinel and no fence.
LlmProse ==
    /\ phase \in {"input", "refine"}
    /\ blocks = <<>> /\ fenced = <<>>
    /\ Len(SplitLines(response)) <= MaxProse
    /\ \E line \in ProseLines : response' = response \o line \o <<"LF">>
    /\ UNCHANGED <<blocks, fenced, sections, existing, parsed, phase,
                   notParse>>

\* "return self._parse_refinement_response(response, existing_files)"
ParseRefinement ==
    /\ phase = "refine"
    /\ parsed' = _parse_refinement_response(response, existing)
    /\ phase' = "refinement"
    /\ UNCHANGED <<blocks, fenced, sections, response, existing, notParse>>

NextRefine ==
    \/ GivenFiles \/ LlmSummary \/ LlmModified \/ LlmRefinedFence
    \/ LlmNoChanges \/ ParseRefinement

SpecRefine == Init /\ [][NextRefine]_vars

\* A response in prose, read by either parser.
NextProse == GivenFiles \/ LlmProse \/ ParseGeneration \/ ParseRefinement

SpecProse == Init /\ [][NextProse]_vars

----------------------------------------------------------------------------
(* AIService.is_refinement_request and the message it classifies *)

MaxPhrases == 3
MaxRambles == 2

refinement_verbs ==
    {"change", "fix", "update", "make", "adjust", "modify", "tweak",
     "improve", "align", "center", "move", "resize", "recolor", "restyle",
     "add padding", "add margin", "remove", "hide", "show", "increase",
     "decrease", "bigger", "smaller"}

element_references ==
    {"the header", "the footer", "the button", "the nav", "the sidebar",
     "the menu", "the form", "the input", "the title", "the text",
     "the image", "the logo", "the card", "the container", "the section",
     "the div", "that", "this", "it"}

style_keywords ==
    {"blue", "red", "green", "black", "white", "dark", "light", "bold",
     "italic", "larger", "smaller", "centered", "left", "right", "top",
     "bottom", "rounded", "shadow", "border"}

\* "kw in text", on the characters of the two strings.
Contains(text, kw) ==
    \E i \in 1..(Len(text) - Len(kw) + 1) :
        SubSeq(text, i, i + Len(kw) - 1) = kw

\* A test on whole words in place of the substring test.
AnyWhole(keywords, text) ==
    \E kw \in keywords : Contains(" " \o text \o " ", " " \o kw \o " ")

\* "any(kw in message_lower for kw in keywords)"
AnyIn(keywords, text) == \E kw \in keywords : Contains(text, kw)

\* "len(message.split())": the runs of characters other than blanks.
SplitLen(text) ==
    Cardinality({ i \in 1..Len(text) :
                    /\ SubSeq(text, i, i) # " "
                    /\ i = 1 \/ SubSeq(text, i - 1, i - 1) = " " })

\* The phrases of a message, with one blank between two of them.
RECURSIVE Spaced(_)
Spaced(phrases) ==
    IF phrases = <<>> THEN <<>>
    ELSE IF Len(phrases) = 1 THEN phrases
    ELSE <<Head(phrases), " ">> \o Spaced(Tail(phrases))

is_refinement_request(msg, has_files) ==
    IF ~has_files THEN FALSE
    ELSE LET message_lower == Text(Lower(msg))
             has_refinement_verb == AnyIn(refinement_verbs, message_lower)
             has_element_ref == AnyIn(element_references, message_lower)
             has_style_keyword == AnyIn(style_keywords, message_lower)
             is_short == SplitLen(Text(msg)) < 15
         IN \/ has_refinement_verb /\ (has_element_ref \/ has_style_keyword)
            \/ is_short /\ has_style_keyword /\ has_element_ref

\* What the user may type: a verb in either case, an element, colours (of
\* which "white" holds the letters "it"), a request for a new project, and
\* words that say nothing.
Phrases == {"make", "Make", "the header", "blue", "white",
            "build me a todo app"}
Ramble == "and so on and so on"

\* The user types one more phrase of the message.
TypePhrase ==
    /\ is_refinement = None
    /\ Len(message) < MaxPhrases
    /\ Ramble \notin SeqToSet(message)
    /\ \E ph \in Phrases : message' = Append(message, ph)
    /\ UNCHANGED <<has_existing_files, is_refinement, notTurn>>

\* The user goes on for six more words.
TypeRamble ==
    /\ is_refinement = None
    /\ Cardinality({ i \in 1..Len(message) : message[i] = Ramble })
          < MaxRambles
    /\ message' = Append(message, Ramble)
    /\ UNCHANGED <<has_existing_files, is_refinement, notTurn>>

\* chat_stream: "has_existing_files = len(existing_files) > 0", then
\* "is_refinement = ai_service.is_refinement_request(...)".
Classify ==
    /\ is_refinement = None
    /\ \E has \in BOOLEAN :
         /\ has_existing_files' = has
         /\ is_refinement' = Ok(is_refinement_request(Spaced(message), has))
    /\ UNCHANGED <<message, notTurn>>

NextClassify == TypePhrase \/ TypeRamble \/ Classify

SpecClassify == Init /\ [][NextClassify]_vars

----------------------------------------------------------------------------
(* CodebaseIndexer.index_project. A file's content is the sequence of its
   characters, "LF" for a newline and "SUR" for a lone surrogate (a
   character that str holds and UTF-8 cannot encode); a path is a string. *)

MaxFiles == 3

Chars(str) == [i \in 1..Len(str) |-> SubSeq(str, i, i)]

\* The lines of a text, joined by newlines.
RECURSIVE Lines(_)
Lines(ls) ==
    IF ls = <<>> THEN <<>>
    ELSE IF Len(ls) = 1 THEN Chars(ls[1])
    ELSE Chars(ls[1]) \o <<"LF">> \o Lines(Tail(ls))

Alnum == "abcdefghijklmnopqrstuvwxyzABCDEFGHIJKLMNOPQRSTUVWXYZ0123456789_"
WordChars == { SubSeq(Alnum, i, i) : i \in 1..Len(Alnum) }
Quotes == { "'", "\"" }

\* The length of the longest run of characters outside C that starts at i.
RECURSIVE RunNot(_, _, _)
RunNot(s, i, C) ==
    IF i <= Len(s) /\ s[i] \notin C THEN 1 + RunNot(s, i + 1, C) ELSE 0

\* str.rfind(c), 0 when c is not in str.
RECURSIVE RFind(_, _, _)
RFind(str, c, i) ==
    IF i = 0 THEN 0
    ELSE IF SubSeq(str, i, i) = c THEN i
    ELSE RFind(str, c, i - 1)

\* Path(filepath).name, .suffix and .stem
NameOfPath(filepath) ==
    SubSeq(filepath, RFind(filepath, "/", Len(filepath)) + 1, Len(filepath))

SuffixAt(name) ==
    LET i == RFind(name, ".", Len(name))
    IN IF 1 < i /\ i < Len(name) THEN i ELSE Len(name) + 1

Suffix(filepath) ==
    LET name == NameOfPath(filepath)
    IN SubSeq(name, SuffixAt(name), Len(name))

Stem(filepath) ==
    LET name == NameOfPath(filepath)
    IN SubSeq(name, 1, SuffixAt(name) - 1)

\* str.lower() of an extension.
Uppers == "ABCDEFGHIJKLMNOPQRSTUVWXYZ"
RECURSIVE LowerStr(_)
LowerStr(str) ==
    IF Len(str) = 0 THEN ""
    ELSE LET c == SubSeq(str, 1, 1)
             up == { k \in 1..Len(Uppers) : SubSeq(Uppers, k, k) = c }
         IN (IF up = {} THEN c
             ELSE LET k == CHOOSE k \in up : TRUE IN SubSeq(Alnum, k, k))
            \o LowerStr(SubSeq(str, 2, Len(str)))

LANGUAGE_MAP(ext) ==
    CASE ext = ".py" -> "python"
      [] ext = ".js" -> "javascript"
      [] ext = ".jsx" -> "javascript-react"
      [] ext = ".ts" -> "typescript"
      [] ext = ".tsx" -> "typescript-react"
      [] ext = ".html" -> "html"
      [] ext = ".css" -> "css"
      [] ext = ".scss" -> "scss"
      [] ext = ".json" -> "json"
      [] ext = ".md" -> "markdown"
      [] ext = ".mojo" -> "mojo"
      [] ext = ".sql" -> "sql"
      [] ext = ".yaml" -> "yaml"
      [] ext = ".yml" -> "yaml"
      [] OTHER -> "unknown"

\* "lang_key = language.split('-')[0]", and the key of PATTERNS that
\* "PATTERNS.get(lang_key, PATTERNS.get('javascript', {}))" ends on.
PatternsKey(language) ==
    CASE language = "python" -> "python"
      [] language \in {"typescript", "typescript-react"} -> "typescript"
      [] OTHER -> "javascript"

\* re: ^import\s+(\w+) and ^from\s+(\w+), with re.MULTILINE, at position i.
PyImportAt(kw, s, i) ==
    LET n == Len(kw)
        ws == Run(s, i + n, Ws)
        w == Run(s, i + n + ws, WordChars)
    IN IF /\ i = 1 \/ s[i - 1] = "LF"
          /\ At(s, i, Chars(kw))
          /\ ws >= 1
          /\ w >= 1
       THEN [ok |-> TRUE, g1 |-> Sub(s, i + n + ws, i + n + ws + w - 1),
             g2 |-> <<>>, next |-> i + n + ws + w]
       ELSE NoMatch

\* re: \s+from\s+['"]([^'"]+)['"] at position p, the end of the pattern
\* of a JavaScript import.
FromAt(s, p) ==
    LET j == Run(s, p, Ws)
        k == Run(s, p + j + 4, Ws)
        q == p + j + 4 + k
        c == RunNot(s, q + 1, Quotes)
    IN IF /\ j >= 1
          /\ At(s, p + j, Chars("from"))
          /\ k >= 1
          /\ q <= Len(s) /\ s[q] \in Quotes
          /\ c >= 1
          /\ q + c + 1 <= Len(s)
       THEN [ok |-> TRUE, g1 |-> Sub(s, q + 1, q + c), g2 |-> <<>>,
             next |-> q + c + 2]
       ELSE NoMatch

\* The first position from p on, with no newline before it on the way,
\* where FromAt matches; 0 when there is none.
RECURSIVE FirstFrom(_, _)
FirstFrom(s, p) ==
    IF p > Len(s) THEN 0
    ELSE IF FromAt(s, p).ok THEN p
    ELSE IF s[p] = "LF" THEN 0
    ELSE FirstFrom(s, p + 1)

\* re: import\s+.*?\s+from\s+['"]([^'"]+)['"] at position i. The greedy
\* \s+ takes the whole run of whitespace and .*? the least it can on the
\* line; when that fails, \s+ gives one character back and the rest of
\* the run leads to "from".
JsImportAt(s, i) ==
    LET r == Run(s, i + 6, Ws)
        p == FirstFrom(s, i + 6 + r)
    IN IF ~At(s, i, Chars("import")) \/ r = 0 THEN NoMatch
       ELSE IF p # 0 THEN FromAt(s, p)
       ELSE IF r >= 2 THEN FromAt(s, i + 6 + r - 1)
       ELSE NoMatch

\* re: require\s*\(\s*['"]([^'"]+)['"]\s*\) at position i.
RequireAt(s, i) ==
    LET a == Run(s, i + 7, Ws)
        b == Run(s, i + 8 + a, Ws)
        q == i + 8 + a + b
        c == RunNot(s, q + 1, Quotes)
        d == Run(s, q + c + 2, Ws)
    IN IF /\ At(s, i, Chars("require"))
          /\ At(s, i + 7 + a, <<"(">>)
          /\ q <= Len(s) /\ s[q] \in Quotes
          /\ c >= 1
          /\ q + c + 1 <= Len(s)
          /\ At(s, q + c + 2 + d, <<")">>)
       THEN [ok |-> TRUE, g1 |-> Sub(s, q + 1, q + c), g2 |-> <<>>,
             next |-> q + c + 3 + d]
       ELSE NoMatch

ImportAt(pattern, s, i) ==
    CASE pattern = "py_import" -> PyImportAt("import", s, i)
      [] pattern = "py_from" -> PyImportAt("from", s, i)
      [] pattern = "js_import" -> JsImportAt(s, i)
      [] pattern = "js_require" -> RequireAt(s, i)

\* re.findall(pattern, content, re.MULTILINE), scanning from position i.
\* The scan goes on after the end of each match.
Least(S) == IF S = {} THEN 0 ELSE CHOOSE j \in S : \A k \in S : j <= k

RECURSIVE FindAllImports(_, _, _)
FindAllImports(pattern, s, i) ==
    LET j == Least({ k \in i..Len(s) : ImportAt(pattern, s, k).ok })
    IN IF j = 0 THEN <<>>
       ELSE LET m == ImportAt(pattern, s, j)
            IN <<m.g1>> \o FindAllImports(pattern, s, m.next)

\* PATTERNS[...]['imports']
ImportPatterns(key) ==
    CASE key = "python" -> <<"py_import", "py_from">>
      [] key = "javascript" -> <<"js_import", "js_require">>
      [] key = "typescript" -> <<"js_import">>

\* "for pattern in patterns.get('imports', []): info.imports.extend(...)"
RECURSIVE ExtractImports(_, _)
ExtractImports(patterns, content) ==
    IF patterns = <<>> THEN <<>>
    ELSE FindAllImports(Head(patterns), content, 1)
         \o ExtractImports(Tail(patterns), content)

\* content.encode('utf-8') raises on a lone surrogate.
Encodable(content) == "SUR" \notin SeqToSet(content)

\* _analyze_file: the FileInfo, as far as the totals and the dependency
\* graph read it (functions, classes and components are found by further
\* re.findall calls, which read the content and raise nothing).
\* re: (?:export\s+)?(?:default\s+)?(?:function|const)\s+([A-Z]\w+) at
\* position i. The optional words before "function" or "const" move the
\* start of a match, never its end or its group.
UpperChars == { SubSeq(Uppers, k, k) : k \in 1..Len(Uppers) }

ComponentAt(s, i) ==
    LET n == IF At(s, i, Chars("function")) THEN 8
             ELSE IF At(s, i, Chars("const")) THEN 5 ELSE 0
        ws == Run(s, i + n, Ws)
        q == i + n + ws
        w == Run(s, q + 1, WordChars)
    IN IF /\ n > 0
          /\ ws >= 1
          /\ q <= Len(s) /\ s[q] \in UpperChars
          /\ w >= 1
       THEN [ok |-> TRUE, g1 |-> Sub(s, q, q + w), g2 |-> <<>>,
             next |-> q + w + 1]
       ELSE NoMatch

\* re.findall(comp_pattern, content, re.MULTILINE), scanning from i.
RECURSIVE FindAllComponents(_, _)
FindAllComponents(s, i) ==
    LET j == Least({ k \in i..Len(s) : ComponentAt(s, k).ok })
    IN IF j = 0 THEN <<>>
       ELSE LET m == ComponentAt(s, j)
            IN <<m.g1>> \o FindAllComponents(s, m.next)

\* PATTERNS['python'] has no 'components'; every name the pattern finds
\* starts with a capital, so the filter c[0].isupper() keeps them all.
Components(key, content) ==
    IF key = "python" THEN <<>> ELSE FindAllComponents(content, 1)

_analyze_file(filepath, content) ==
    LET language == LANGUAGE_MAP(LowerStr(Suffix(filepath)))
    IN IF ~Encodable(content) THEN Raise("UnicodeEncodeError")
       ELSE Ok([path |-> filepath,
                content |-> content,
                language |-> language,
                size |-> Len(content),
                lines |-> Cardinality({ i \in 1..Len(content) :
                                          content[i] = "LF" }) + 1,
                imports |-> ExtractImports(
                                ImportPatterns(PatternsKey(language)),
                                content),
                components |-> Components(PatternsKey(language), content)])

\* file_map[name]: the last of the files whose stem is name; "" when no
\* file has that stem.
RECURSIVE file_map(_, _)
file_map(infos, name) ==
    IF infos = <<>> THEN ""
    ELSE LET n == Len(infos)
         IN IF Stem(infos[n].path) = name THEN infos[n].path
            ELSE file_map(SubSeq(infos, 1, n - 1), name)

\* "imp.split('/')[-1]"; the two replace calls that follow find no slash
\* left to remove.
RECURSIVE LastSlash(_, _)
LastSlash(imp, i) ==
    IF i = 0 THEN 0 ELSE IF imp[i] = "/" THEN i ELSE LastSlash(imp, i - 1)

ImpName(imp) == Text(Sub(imp, LastSlash(imp, Len(imp)) + 1, Len(imp)))

\* An edge for every import, to the name it imports when no file has it.
EdgesToAll(imports, infos) ==
    [j \in 1..Len(imports) |->
        IF \E k \in 1..Len(infos) : Stem(infos[k].path) = ImpName(imports[j])
        THEN file_map(infos, ImpName(imports[j]))
        ELSE ImpName(imports[j])]

\* The edges of one file: one for every import that names a known stem.
RECURSIVE Edges(_, _)
Edges(imports, infos) ==
    IF imports = <<>> THEN <<>>
    ELSE LET imp_name == ImpName(Head(imports))
             known == \E k \in 1..Len(infos) : Stem(infos[k].path) = imp_name
         IN (IF known THEN <<file_map(infos, imp_name)>> ELSE <<>>)
            \o Edges(Tail(imports), infos)

\* _build_dependency_graph: a key for every file that has an edge.
_build_dependency_graph(infos) ==
    LET withEdges == { k \in 1..Len(infos) :
                         Edges(infos[k].imports, infos) # <<>> }
    IN [ f \in { infos[k].path : k \in withEdges } |->
           LET k == CHOOSE k \in withEdges : infos[k].path = f
           IN Edges(infos[k].imports, infos) ]

priority_files ==
    <<"src/index.tsx", "src/index.ts", "src/index.js", "src/main.tsx",
      "src/main.ts", "src/App.tsx", "src/App.tsx", "index.html", "main.py",
      "app.py", "server.py", "index.js", "main.mojo">>

\* _find_entry_points: "for pf in priority_files: if pf in files: append".
RECURSIVE EntryPointsFrom(_, _)
EntryPointsFrom(pfs, paths) ==
    IF pfs = <<>> THEN <<>>
    ELSE (IF Head(pfs) \in paths THEN <<Head(pfs)>> ELSE <<>>)
         \o EntryPointsFrom(Tail(pfs), paths)

_find_entry_points(fs) ==
    EntryPointsFrom(priority_files, { fs[k].path : k \in 1..Len(fs) })

RECURSIVE SumLines(_)
SumLines(infos) ==
    IF infos = <<>> THEN 0 ELSE Head(infos).lines + SumLines(Tail(infos))

\* index_project: the loop over the files ends at the first file that
\* _analyze_file raises on; else the index is built, cached and returned.
\* (tech_stack and patterns are computed from the same files, feed no
\* other field and raise nothing: json.loads stands under a bare except.)
index_project(fs) ==
    IF \E k \in 1..Len(fs) : ~Encodable(fs[k].content)
    THEN Raise("UnicodeEncodeError")
    ELSE LET infos == [k \in 1..Len(fs) |->
                         _analyze_file(fs[k].path, fs[k].content).val]
         IN Ok([files |-> infos,
                dependency_graph |-> _build_dependency_graph(infos),
                entry_points |-> _find_entry_points(fs),
                total_lines |-> SumLines(infos),
                total_files |-> Len(infos)])

\* The files of a project: paths with and without a directory, two of one
\* stem, two of the priority list; contents without text, with Python
\* imports, with JavaScript imports, and with a lone surrogate.
IndexPaths == {"src/App.tsx", "main.py", "utils.py", "src/index.js",
               "lib/utils.ts"}
IndexContents ==
    { <<>>,
      Lines(<<"import utils", "from main import x">>),
      Lines(<<"import React from 'react'", "import a from './utils'",
              "const b = require('../src/App')">>),
      <<"x", "SUR">> }

\* The caller puts one more file into the map.
AddFile ==
    /\ index = None
    /\ Len(input_files) < MaxFiles
    /\ \E path \in IndexPaths, content \in IndexContents :
         /\ \A k \in 1..Len(input_files) : input_files[k].path # path
         /\ input_files' =
                Append(input_files, [path |-> path, content |-> content])
    /\ UNCHANGED <<indexes, index, notIndex>>

\* "index = codebase_indexer.index_project(project_id, files)"
IndexProject ==
    /\ index = None
    /\ index' = index_project(input_files)
    /\ indexes' = IF index'.kind = "ok" THEN index' ELSE indexes
    /\ UNCHANGED <<input_files, notIndex>>

NextIndex == AddFile \/ IndexProject

SpecIndex == Init /\ [][NextIndex]_vars

----------------------------------------------------------------------------
(* CodebaseIndexer.build_ai_context and _select_relevant_files *)

\* str.split(): the words between runs of blanks.
RECURSIVE Words(_)
Words(str) ==
    IF Len(str) = 0 THEN <<>>
    ELSE IF SubSeq(str, 1, 1) = " " THEN Words(SubSeq(str, 2, Len(str)))
    ELSE LET n == CHOOSE n \in 1..Len(str) :
                    /\ n = Len(str) \/ SubSeq(str, n + 1, n + 1) = " "
                    /\ \A k \in 1..n : SubSeq(str, k, k) # " "
         IN <<SubSeq(str, 1, n)>> \o Words(SubSeq(str, n + 1, Len(str)))

\* info.content.lower(), character by character.
LowerChars(content) ==
    [i \in 1..Len(content) |->
        IF content[i] \in {"LF", "SUR"} THEN content[i]
        ELSE LowerStr(content[i])]

\* A score with no bonus for entry points.
EntryScoreNone(info, entry_points) == 0

\* "if filepath in index.entry_points: score += 10"
EntryScore(info, entry_points) ==
    IF info.path \in SeqToSet(entry_points) THEN 10 ELSE 0

\* "if any(x in filepath.lower() for x in [...]): score += 5"
ConfigScore(info) ==
    IF \E x \in {"config", "package.json", "requirements"} :
          Contains(LowerStr(info.path), x)
    THEN 5 ELSE 0

\* "for kw in keywords:" +3 when kw is in the path, +1 when in the content.
RECURSIVE KeywordScore(_, _)
KeywordScore(info, keywords) ==
    IF keywords = <<>> THEN 0
    ELSE (IF Contains(LowerStr(info.path), Head(keywords)) THEN 3 ELSE 0)
         + (IF Contains(LowerChars(info.content), Chars(Head(keywords)))
            THEN 1 ELSE 0)
         + KeywordScore(info, Tail(keywords))

\* The score of one file in the loop of _select_relevant_files.
Score(info, entry_points, query) ==
    EntryScore(info, entry_points)
    + ConfigScore(info)
    + (IF Len(query) > 0 THEN KeywordScore(info, Words(LowerStr(query)))
       ELSE 0)
    + (IF info.components # <<>> THEN 2 ELSE 0)
    + (IF info.lines < 100 THEN 1 ELSE 0)

\* sorted(scores.items(), key=lambda x: x[1], reverse=True): a stable sort,
\* files of equal score stay in the order of the map.
RECURSIVE InsertByScore(_, _)
InsertByScore(x, sorted) ==
    IF sorted = <<>> THEN <<x>>
    ELSE IF Head(sorted).score <= x.score THEN <<x>> \o sorted
    ELSE <<Head(sorted)>> \o InsertByScore(x, Tail(sorted))

RECURSIVE SortByScore(_)
SortByScore(items) ==
    IF items = <<>> THEN <<>>
    ELSE InsertByScore(Head(items), SortByScore(Tail(items)))

\* The slice that is no slice.
SliceAll(items, n) == items

\* sorted_files[:max_files]; a negative bound counts from the end.
Slice(items, n) ==
    IF n >= 0 THEN SubSeq(items, 1, IF n < Len(items) THEN n ELSE Len(items))
    ELSE SubSeq(items, 1, IF Len(items) + n > 0 THEN Len(items) + n ELSE 0)

_select_relevant_files(idx, query, n) ==
    LET scores == [k \in 1..Len(idx.files) |->
                     [path |-> idx.files[k].path,
                      score |-> Score(idx.files[k], idx.entry_points,
                                      query)]]
        sorted_files == Slice(SortByScore(scores), n)
    IN [k \in 1..Len(sorted_files) |-> sorted_files[k].path]

\* "for filepath in relevant_files: content = files.get(filepath, '');
\* if content:" the body of the file is rendered.
RECURSIVE Bodies(_, _)
Bodies(relevant_files, fs) ==
    IF relevant_files = <<>> THEN <<>>
    ELSE LET f == CHOOSE f \in SeqToSet(fs) : f.path = Head(relevant_files)
         IN (IF f.content # <<>> THEN <<f.path>> ELSE <<>>)
            \o Bodies(Tail(relevant_files), fs)

\* Of the text build_ai_context returns: the entry points it lists, the
\* files it selects and the files whose bodies it renders.
\* idx is what its first statement, "index = self.index_project(project_id,
\* files)", returned or raised.
build_ai_context(idx, fs, query, n) ==
    IF idx.kind # "ok" THEN idx
    ELSE LET relevant_files == _select_relevant_files(idx.val, query, n)
         IN Ok([entry_points |-> idx.val.entry_points,
                relevant_files |-> relevant_files,
                bodies |-> Bodies(relevant_files, fs)])

MaxSources == 2

\* The files of the project the context is built for.
LongFile == [i \in 1..99 |-> "LF"]
SelectPaths == {"main.py", "utils.py", "src/App.tsx", "utils.config.js"}
SelectContents == { <<>>, LongFile, Chars("const App = utils") }
Queries == {"", " ", "utils", "Fix  utils"}
Budgets == 0..(MaxSources + 1)

\* The caller puts one more file of the project into the map.
AddSource ==
    /\ context = None
    /\ Len(input_files) < MaxSources
    /\ \E path \in SelectPaths, content \in SelectContents :
         /\ \A k \in 1..Len(input_files) : input_files[k].path # path
         /\ input_files' =
                Append(input_files, [path |-> path, content |-> content])
    /\ UNCHANGED <<indexes, index, assembleVars, notAssemble>>

\* "codebase_indexer.build_ai_context(project_id, files, user_query,
\* max_file_lines, max_files)": it indexes the project first.
BuildAiContext ==
    /\ context = None
    /\ \E query \in Queries, n \in Budgets :
         /\ user_query' = query
         /\ max_files' = n
         /\ index' = index_project(input_files)
         /\ indexes' = IF index'.kind = "ok" THEN index' ELSE indexes
         /\ context' = build_ai_context(index', input_files, query, n)
    /\ UNCHANGED <<input_files, notAssemble>>

NextAssemble == AddSource \/ BuildAiContext

SpecAssemble == Init /\ [][NextAssemble]_vars

----------------------------------------------------------------------------
(* Properties of the project store *)

\* A file on disk that the persisted manifest does not list.
Orphan(id, path) ==
    /\ fileData[id][path] # NoFile
    /\ path \notin SeqToSet(manifest[id].files)

\* The project has no manifest on disk and no cache entry.
Absent(id) == ~manifest[id].exists /\ projects_db[id] = 0

SavedOk(l) == l.op = "save_file" /\ l.ret.kind = "ok"

\* C1: a save_file(id, path, content) that returns normally, followed
\* immediately by get_file_content(id, path), gives back exactly content.
C1_SaveThenGetReturnsContent ==
    (/\ last.op = "get_file_content"
     /\ last.prev.op = "save_file"
     /\ last.prev.kind = "ok"
     /\ last.prev.id = last.id
     /\ last.prev.path = last.path)
    => last.ret = Ok(last.prev.content)

C3_UnknownProjectRaises ==
    (last.op \in {"get_project", "save_file"} /\ Absent(last.id))
    => last.ret.kind = "error"

\* C3 as amended: on such a project get_project returns None, and save_file
\* raises ValueError (its not-found error).
C3_UnknownProjectNoneOrValueError ==
    /\ (last.op = "get_project" /\ Absent(last.id)) => last.ret = None
    /\ (last.op = "save_file" /\ Absent(last.id))
         => last.ret = Raise("ValueError")

\* get_project has returned None for a project that is not there.
C3_Witness ==
    /\ last.op = "get_project"
    /\ Absent(last.id)
    /\ last.ret = None

\* C4 as stated: in save_file the manifest is persisted with the path before
\* updated_at is bumped, so once the bump is done the path is on disk in
\* the manifest.
C4_PersistBeforeBump ==
    \A t \in Tasks :
        task[t].pc = "sf_persist"
        => task[t].path \in SeqToSet(manifest[task[t].id].files)

\* C4 as amended: within one save_file call the content is written to disk,
\* then the path is appended to the Project in memory if absent, then
\* updated_at is bumped, and only then is the manifest persisted, carrying
\* both the path and the new updated_at.
C4_SaveFileOrder ==
    /\ \A t \in Tasks :
        LET id == task[t].id
            path == task[t].path
            o == task[t].proj
            written == fileData[id][path] = TextWrite(task[t].content)
            listed == path \in SeqToSet(heap[o].files)
        IN /\ task[t].pc = "sf_append" => written
           /\ task[t].pc = "sf_bump" => written /\ listed
           /\ task[t].pc = "sf_persist"
                => /\ written
                   /\ listed
                   /\ heap[o].updated_at = clock
                   /\ manifest[id].updated_at < heap[o].updated_at
    /\ SavedOk(last)
         => /\ last.path \in SeqToSet(manifest[last.id].files)
            /\ manifest[last.id].updated_at = clock

\* A save_file has bumped updated_at and its path is not yet in the
\* persisted manifest.
C4_Witness ==
    \E t \in Tasks :
        /\ task[t].pc = "sf_persist"
        /\ task[t].path \notin SeqToSet(manifest[task[t].id].files)
        /\ manifest[task[t].id].exists

\* C5: while a project is not deleted, the files list of its persisted
\* manifest only grows, whatever calls interleave.
C5_ManifestOnlyGrows ==
    [][\A id \in ProjectIds :
          (id \notin deleted' /\ manifest[id].exists)
          => /\ manifest'[id].exists
             /\ SeqToSet(manifest[id].files) \subseteq
                    SeqToSet(manifest'[id].files)]_vars

\* C6: every path listed in a persisted manifest names a file that exists
\* on disk in the project's directory, in every reachable state.
C6_ListedFilesExist ==
    \A id \in ProjectIds :
        \A p \in SeqToSet(manifest[id].files) : fileData[id][p] # NoFile

C8_NoWriteBeforeLlmReturns ==
    /\ \A t \in Tasks : task[t].pc \in LlmPcs => ~task[t].wrote
    /\ (last.pc = "cancelled" /\ last.at \in LlmPcs) => ~last.wrote

\* A turn was cancelled while generate_project waited for the LLM.
C8_Witness ==
    /\ last.pc = "cancelled"
    /\ last.turn
    /\ last.at = "gp_llm"
    /\ manifest[last.id].exists

----------------------------------------------------------------------------
(* Properties of the generation parser *)

\* The (path, content) pairs the response was built from.
Inputs ==
    [i \in 1..Len(blocks) |->
        [path |-> blocks[i].path, content |-> blocks[i].content]]

RECURSIVE Built(_)
Built(bs) == IF bs = <<>> THEN <<>> ELSE BlockText(Head(bs)) \o Built(Tail(bs))

\* The response is the file blocks and nothing else.
OnlyBlocks == response = Built(blocks)

DistinctPaths ==
    \A i, j \in 1..Len(blocks) :
        i # j => blocks[i].path # blocks[j].path

\* A block that the parser gives back as it is: its path is not empty, has
\* no whitespace around it and no equals sign; its content is not empty
\* and does not hold the end sentinel; content that is not wrapped in a
\* fence has no whitespace around it and does not start with a fence.
Clean(b) ==
    /\ b.path # <<>>
    /\ Strip(b.path) = b.path
    /\ "===" \notin SeqToSet(b.path)
    /\ b.content # <<>>
    /\ Find(b.content, 1, EndSentinel) = 0
    /\ b.fence = <<>> => /\ Strip(b.content) = b.content
                         /\ Head(b.content) # "FENCE"

\* C9 as stated: a response built from N sentinel blocks with pairwise
\* distinct paths parses to exactly N entries, in block order, equal to the
\* inputs, the content of a fenced block being given back unwrapped.
C9_RoundTrip ==
    (phase = "generation" /\ OnlyBlocks /\ DistinctPaths)
    => parsed.files = Inputs

\* C9 as amended: the round trip holds for the blocks whose path is
\* non-empty, free of surrounding whitespace and of equals signs, and whose
\* content is non-empty, free of the end sentinel and, unless it is wrapped
\* in a fence, free of surrounding whitespace and not starting with a
\* fence. (The parser strips the path and the content, drops a block that
\* is then empty, and unwraps whatever starts with a fence.)
C9_RoundTripOfCleanBlocks ==
    (/\ phase = "generation"
     /\ OnlyBlocks
     /\ DistinctPaths
     /\ \A i \in 1..Len(blocks) : Clean(blocks[i]))
    => parsed.files = Inputs

\* Two clean blocks, one of them wrapped in a fence, have been parsed.
C9_Witness ==
    /\ phase = "generation"
    /\ OnlyBlocks
    /\ DistinctPaths
    /\ Len(blocks) = 2
    /\ \A i \in 1..Len(blocks) : Clean(blocks[i])
    /\ blocks[1].fence # <<>>
    /\ blocks[2].fence = <<>>
    /\ parsed.files = Inputs

\* C10 as stated: when the response holds at least one sentinel block, no
\* returned entry comes from a generic fenced code block: the entries are
\* those of the sentinel blocks.
C10_FallbackOnlyWithoutSentinelBlocks ==
    (phase = "generation" /\ FileMatches(response, 1) # <<>>)
    => parsed.files = SentinelFiles(response)

\* C10 as amended: the fallback is used only when the sentinel blocks give
\* no file entry (there is no block, or each block's path or content is
\* empty once stripped); when at least one block gives an entry, the
\* returned entries are the blocks' entries, each under the path of a
\* block, and none comes from a generic fenced code block.
C10_FallbackOnlyWithoutSentinelFiles ==
    (phase = "generation" /\ SentinelFiles(response) # <<>>)
    => /\ parsed.files = SentinelFiles(response)
       /\ \A i \in 1..Len(parsed.files) :
             \E j \in 1..Len(blocks) :
                 parsed.files[i].path = Strip(blocks[j].path)

\* A response with a file block that gives an entry and with a generic
\* fenced code block after it has been parsed.
C10_Witness ==
    /\ phase = "generation"
    /\ ~OnlyBlocks
    /\ SentinelFiles(response) # <<>>
    /\ _extract_code_blocks_as_files(response) # <<>>
    /\ parsed.files = SentinelFiles(response)

----------------------------------------------------------------------------
(* Properties of the generation fallback *)

\* The number of the fenced blocks before the i-th whose tags give the
\* same base name as the i-th block's.
EarlierSame(i) ==
    Cardinality({j \in 1..(i - 1) :
                    BaseName(fenced[j].lang) = BaseName(fenced[i].lang)})

\* The file name the i-th fenced block is to get: its base name, with _k
\* before the extension when k earlier blocks have the same base name.
NameOf(i) ==
    LET base == BaseName(fenced[i].lang)
        k == EarlierSame(i)
    IN IF k = 0 THEN base.name \o "." \o base.ext
       ELSE base.name \o "_" \o ToString(k) \o "." \o base.ext

\* The entries of the fenced blocks from the i-th on: one for each block
\* whose content is not blank.
RECURSIVE NamedFrom(_)
NamedFrom(i) ==
    IF i > Len(fenced) THEN <<>>
    ELSE (IF Strip(fenced[i].content) # <<>>
          THEN <<[path |-> <<NameOf(i)>>,
                  content |-> Strip(fenced[i].content)]>>
          ELSE <<>>) \o NamedFrom(i + 1)

\* C11: in the generation fallback each fenced block is named from its
\* language tag through the fixed map (python -> main.py, no tag ->
\* file.txt, any other tag -> file.<tag>), a name that collides with an
\* earlier one gets an incrementing numeric suffix before the extension,
\* and the returned paths are pairwise distinct.
C11_FallbackNames ==
    (phase = "generation" /\ blocks = <<>>)
    => /\ parsed.files = NamedFrom(1)
       /\ \A i, j \in 1..Len(parsed.files) :
             i # j => parsed.files[i].path # parsed.files[j].path

\* Two python fenced blocks have been parsed to main.py and main_1.py.
C11_Witness ==
    /\ phase = "generation"
    /\ Len(fenced) = 2
    /\ fenced[1].lang = <<"python">>
    /\ fenced[2].lang = <<"python">>
    /\ Len(parsed.files) = 2
    /\ parsed.files[1].path = <<"main.py">>
    /\ parsed.files[2].path = <<"main_1.py">>

----------------------------------------------------------------------------
(* Properties of the dependencies and of the explanation *)

\* The entry of a line of the section: a bullet without its dash, any
\* other line as it is (without the whitespace around it).
DepOf(line) ==
    LET d == Strip(line)
    IN IF d # <<>> /\ Head(d) = "-" THEN Strip(Tail(d)) ELSE d

\* How many times v occurs in the sequence q.
Count(q, v) == Cardinality({i \in 1..Len(q) : q[i] = v})

NonBlank(lines) == {i \in 1..Len(lines) : Strip(lines[i]) # <<>>}

\* C12: the dependencies are the lines of the DEPENDENCIES section, one
\* entry per non-empty line (in whatever order), a bare line as it is and a
\* bullet line without its dash; the explanation is the text after
\* EXPLANATION:.
C12_DependenciesAndExplanation ==
    (phase = "generation" /\ blocks = <<>> /\ fenced = <<>>)
    => /\ Len(parsed.dependencies) = Cardinality(NonBlank(sections.deps))
       /\ \A i \in NonBlank(sections.deps) :
             LET v == DepOf(sections.deps[i])
             IN Count(parsed.dependencies, v) =
                  Cardinality({j \in NonBlank(sections.deps) :
                                  DepOf(sections.deps[j]) = v})
       /\ parsed.explanation = sections.expl

----------------------------------------------------------------------------
(* Properties of the refinement parser *)

\* The existing files whose extension the language tag names.
NamedBy(lang) == { p \in SeqToSet(existing) : NamesLang(p, lang) }

\* C13: when the response holds the no-changes sentinel, the refinement
\* parser returns no_changes = true with an empty modified_files list,
\* whatever else the response holds (so that the turn has nothing to save).
C13_NoChangesSentinel ==
    (phase = "refinement" /\ Find(response, 1, NoChangesSentinel) # 0)
    => /\ parsed.kind = "ok"
       /\ parsed.val.no_changes
       /\ parsed.val.modified_files = <<>>

C15_FallbackMapsUniqueLanguage ==
    (/\ phase = "refinement"
     /\ fenced # <<>>
     /\ Find(response, 1, NoChangesSentinel) = 0)
    => /\ parsed.kind = "ok"
       /\ Len(parsed.val.modified_files) = Len(fenced)
       /\ \A k \in 1..Len(fenced) :
             LET lang == Text(Lower(fenced[k].lang))
                 f == parsed.val.modified_files[k]
             IN IF Cardinality(NamedBy(lang)) = 1
                THEN f.path \in NamedBy(lang) /\ ~f.is_new
                ELSE f.path = <<"modified", ".", ext_map(lang)>> /\ f.is_new

\* C16: for a response with no sentinel blocks and no fenced code blocks,
\* the generation parser and the refinement parser both return normally,
\* with an empty file list.
C16_ProseIsNoError ==
    (/\ Find(response, 1, <<"===">>) = 0
     /\ Find(response, 1, <<"FENCE">>) = 0)
    => /\ phase = "generation" => parsed.files = <<>>
       /\ phase = "refinement"
            => parsed.kind = "ok" /\ parsed.val.modified_files = <<>>

----------------------------------------------------------------------------
(* Properties of is_refinement_request *)

\* What the phrases of the message are known to hold, phrase by phrase.
HoldsVerb(ph) == ph \in {"make", "Make"}
HoldsElement(ph) == ph \in {"the header", "white"}
HoldsStyle(ph) == ph \in {"blue", "white"}
WordsOf(ph) ==
    CASE ph \in {"make", "Make", "blue", "white"} -> 1
      [] ph = "the header" -> 2
      [] ph = "build me a todo app" -> 5
      [] ph = Ramble -> 6

RECURSIVE WordsIn(_)
WordsIn(phrases) ==
    IF phrases = <<>> THEN 0 ELSE WordsOf(Head(phrases)) + WordsIn(Tail(phrases))

\* C17: is_refinement_request is false without existing files; with them
\* it is (has_verb and (has_element_ref or has_style_kw)) or (is_short and
\* has_style_kw and has_element_ref), the features being substring tests
\* on the lower-cased message and is_short meaning fewer than 15 words.
\* With existing files "make the header blue" gives true and "build me a
\* todo app" gives false.
C17_RefinementVerdict ==
    is_refinement # None
    => LET has_verb == \E i \in 1..Len(message) : HoldsVerb(message[i])
           has_element_ref ==
               \E i \in 1..Len(message) : HoldsElement(message[i])
           has_style_kw == \E i \in 1..Len(message) : HoldsStyle(message[i])
           is_short == WordsIn(message) < 15
       IN /\ ~has_existing_files => is_refinement = Ok(FALSE)
          /\ has_existing_files
               => is_refinement =
                    Ok((has_verb /\ (has_element_ref \/ has_style_kw))
                       \/ (is_short /\ has_style_kw /\ has_element_ref))
          /\ (has_existing_files /\ message = <<"make", "the header", "blue">>)
               => is_refinement = Ok(TRUE)
          /\ (has_existing_files /\ message = <<"build me a todo app">>)
               => is_refinement = Ok(FALSE)

\* A message of fifteen words that names a colour and an element and has
\* no verb is no refinement, with existing files.
C17_Witness ==
    /\ has_existing_files
    /\ message = <<"white", "the header", Ramble, Ramble>>
    /\ is_refinement = Ok(FALSE)

----------------------------------------------------------------------------
(* Properties of index_project *)

InputPaths == { input_files[k].path : k \in 1..Len(input_files) }

\* The edges the index gives for a file (none when it is no key).
EdgesOf(path) ==
    IF path \in DOMAIN index.val.dependency_graph
    THEN index.val.dependency_graph[path]
    ELSE <<>>

\* The imports of a file whose last path segment is the stem of a file.
RECURSIVE LocalImports(_)
LocalImports(imports) ==
    IF imports = <<>> THEN <<>>
    ELSE (IF \E p \in InputPaths : Stem(p) = ImpName(Head(imports))
          THEN <<Head(imports)>> ELSE <<>>) \o LocalImports(Tail(imports))

\* The place of a name in the priority list (its first one).
PriorityOf(pf) ==
    CHOOSE i \in 1..Len(priority_files) :
        /\ priority_files[i] = pf
        /\ \A j \in 1..(i - 1) : priority_files[j] # pf

\* C18: index_project never raises, whatever the map of files; the index
\* it returns has total_files equal to the number of input files, and an
\* empty input gives zero files and zero lines.
C18_IndexNeverRaises ==
    index # None
    => /\ index.kind = "ok"
       /\ index.val.total_files = Len(input_files)
       /\ input_files = <<>>
            => index.val.total_files = 0 /\ index.val.total_lines = 0

\* C19: every edge of the dependency graph goes from a file of the project
\* to a file of the project: an import whose last path segment is the stem
\* of a known file adds an edge to a file of that stem, and every other
\* import adds no edge.
C19_EdgesStayInProject ==
    (index # None /\ index.kind = "ok")
    => /\ DOMAIN index.val.dependency_graph \subseteq InputPaths
       /\ \A k \in 1..Len(index.val.files) :
             LET info == index.val.files[k]
                 edges == EdgesOf(info.path)
                 local == LocalImports(info.imports)
             IN /\ Len(edges) = Len(local)
                /\ \A j \in 1..Len(edges) :
                      /\ edges[j] \in InputPaths
                      /\ Stem(edges[j]) = ImpName(local[j])

\* A JavaScript file imports react, which is no file, and ./utils, which
\* is one: the graph has the one edge.
C19_Witness ==
    /\ index # None /\ index.kind = "ok"
    /\ \E k \in 1..Len(index.val.files) :
          LET info == index.val.files[k]
          IN /\ info.path = "src/index.js"
             /\ Chars("react") \in SeqToSet(info.imports)
             /\ Chars("./utils") \in SeqToSet(info.imports)
             /\ EdgesOf(info.path) = <<"utils.py">>

----------------------------------------------------------------------------
(* Properties of the store under deletion, errors and hostile paths *)

\* C26: once delete_project(id) has completed, the project stays absent:
\* no project directory, no manifest on disk and no projects_db entry,
\* also when a generate_project or generate_file call on that id, which
\* was awaiting the LLM when the deletion ran, resumes.
C26_DeletedStaysAbsent ==
    \A id \in deleted :
        /\ id \notin dirs
        /\ ~manifest[id].exists
        /\ projects_db[id] = 0

\* No call on the project is between its first and its last step.
Quiet(id) ==
    \A t \in Tasks :
        task[t].id = id => task[t].pc \in {"idle", "done", "cancelled"}

\* C27: whenever no store operation is in progress on a project, also
\* after an operation that ended in an error, the Project cached in
\* projects_db has the files list of the manifest persisted on disk.
C27_CacheAgreesWithManifest ==
    \A id \in ProjectIds :
        (Quiet(id) /\ projects_db[id] # 0)
        => /\ manifest[id].exists
           /\ heap[projects_db[id]].files = manifest[id].files


\* C28: every file written by save_file, generate_file and
\* generate_project for a project lies inside that project's directory,
\* whatever path string is supplied: no path that resolves outside the
\* project directory names a file on disk.
C28_WritesStayInProject ==
    \A id \in ProjectIds : \A p \in Paths :
        ~InsideProject(p) => fileData[id][p] = NoFile

----------------------------------------------------------------------------
(* Properties of the file operations a parse returns *)

\* Either parser reads a response: the generation parser one of file blocks
\* and other text, the refinement parser one given with the project's files.
NextOps == NextParse \/ NextRefine

SpecOps == Init /\ [][NextOps]_vars

\* The file operations the last parse returned: none when it raised.
ReturnedOps ==
    IF phase = "generation" THEN parsed.files
    ELSE IF phase = "refinement" /\ parsed.kind = "Ok"
    THEN parsed.val.modified_files
    ELSE <<>>

C30_OpsHaveDistinctPaths ==
    \A i, j \in 1..Len(ReturnedOps) :
        i # j => ReturnedOps[i].path # ReturnedOps[j].path

----------------------------------------------------------------------------
(* ContextService: one ProjectContext per project id, kept in memory and
   in the file .contexts/<id>.json. Its methods are synchronous and called
   from the event loop, so each runs as one step. last_updated and the
   timestamp of a decision are clock readings that nothing reads back. *)

MaxDecisions == 2

DecisionTypes == {"framework", "database"}
PatternNames == {"hooks"}
TechStacks == { [k \in {"language"} |-> "python"] }
FileLists == { <<>>, <<"a.txt">> }
Summaries == {"chat"}

\* ProjectContext.__init__
NewContext ==
    [tech_stack |-> <<>>, file_structure |-> <<>>, decisions |-> <<>>,
     patterns |-> <<>>, conversation_summary |-> ""]

\* _save_context: the dict that json.dump writes, which json.load reads
\* back as it was (strings, lists and dicts of strings).
JsonData(c) ==
    [tech_stack |-> c.tech_stack, file_structure |-> c.file_structure,
     decisions |-> c.decisions, patterns |-> c.patterns,
     conversation_summary |-> c.conversation_summary]

\* _load_context: None when the file does not exist.
_load_context(id) ==
    IF context_file[id] = None THEN None
    ELSE LET data == context_file[id].val
         IN Ok([tech_stack |-> data.tech_stack,
                file_structure |-> data.file_structure,
                decisions |-> data.decisions,
                patterns |-> data.patterns,
                conversation_summary |-> data.conversation_summary])

\* get_project_context: the object in self.contexts, else the one loaded
\* from the file, else a new one.
Loaded(id) ==
    IF contexts[id] # None THEN contexts[id].val
    ELSE IF _load_context(id) # None THEN _load_context(id).val
    ELSE NewContext

\* A method that changes the context c of the project id and saves it.
Saved(op, id, c) ==
    /\ contexts' = [contexts EXCEPT ![id] = Ok(c)]
    /\ context_file' = [context_file EXCEPT ![id] = Ok(JsonData(c))]
    /\ ctx_last' = [op |-> op, id |-> id]
    /\ UNCHANGED notCtx

\* A decision log of one entry only.
OnlyDecision(decisions, d) == <<d>>

\* "context.decisions.append({...})"
AppendDecision(decisions, d) == Append(decisions, d)

\* dict.update
DictUpdate(a, b) ==
    [k \in DOMAIN a \cup DOMAIN b |-> IF k \in DOMAIN b THEN b[k] ELSE a[k]]

GetProjectContext ==
    \E id \in ProjectIds :
        /\ contexts' = [contexts EXCEPT ![id] = Ok(Loaded(id))]
        /\ ctx_last' = [op |-> "get_project_context", id |-> id]
        /\ UNCHANGED <<context_file, notCtx>>

UpdateFileStructure ==
    \E id \in ProjectIds, files \in FileLists :
        Saved("update_file_structure", id,
              [Loaded(id) EXCEPT !.file_structure = files])

UpdateTechStack ==
    \E id \in ProjectIds, tech_stack \in TechStacks :
        Saved("update_tech_stack", id,
              [Loaded(id) EXCEPT !.tech_stack = DictUpdate(@, tech_stack)])

\* The entry is saved; adding it to ChromaDB afterwards may raise, which
\* changes nothing here.
AddDecision ==
    \E id \in ProjectIds, decision_type \in DecisionTypes :
        /\ Len(Loaded(id).decisions) < MaxDecisions
        /\ Saved("add_decision", id,
                 [Loaded(id) EXCEPT !.decisions =
                     AppendDecision(@, [type |-> decision_type,
                                        description |-> "AI suggested",
                                        rationale |-> ""])])

\* "if pattern not in context.patterns:" append and save.
AddPattern ==
    \E id \in ProjectIds, pattern \in PatternNames :
        IF pattern \in SeqToSet(Loaded(id).patterns)
        THEN /\ contexts' = [contexts EXCEPT ![id] = Ok(Loaded(id))]
             /\ ctx_last' = [op |-> "add_pattern", id |-> id]
             /\ UNCHANGED <<context_file, notCtx>>
        ELSE Saved("add_pattern", id,
                   [Loaded(id) EXCEPT !.patterns = Append(@, pattern)])

UpdateConversationSummary ==
    \E id \in ProjectIds, summary \in Summaries :
        Saved("update_conversation_summary", id,
              [Loaded(id) EXCEPT !.conversation_summary = summary])

\* clear_context: the entry and the file are removed.
ClearContext ==
    \E id \in ProjectIds :
        /\ contexts' = [contexts EXCEPT ![id] = None]
        /\ context_file' = [context_file EXCEPT ![id] = None]
        /\ ctx_last' = [op |-> "clear_context", id |-> id]
        /\ UNCHANGED notCtx

\* The context routes and the chat turn call the service; projects are
\* created and deleted; the process restarts.
NextContext ==
    \/ GetProjectContext \/ UpdateFileStructure \/ UpdateTechStack
    \/ AddDecision \/ AddPattern \/ UpdateConversationSummary
    \/ ClearContext
    \/ \E t \in Tasks : CreateProject(t) \/ DeleteProject(t)
    \/ Crash

SpecContext == Init /\ [][NextContext]_vars

----------------------------------------------------------------------------
(* Properties of the context assembler *)

----------------------------------------------------------------------------
(* Properties of the project context *)

Log(id) == Loaded(id).decisions

IsPrefix(a, b) == Len(a) <= Len(b) /\ SubSeq(b, 1, Len(a)) = a

\* A step of clear_context that removed something.
ClearStep ==
    /\ ctx_last'.op = "clear_context"
    /\ contexts' # contexts \/ context_file' # context_file

----------------------------------------------------------------------------
====
